---- MODULE Spec2Model ----
(***************************************************************************)
(* Restoration and video orchestration of restore-photos.                  *)
(*                                                                         *)
(*  - POST /api/edit-image  (src/app/api/edit-image/route.ts, lines 1-186) *)
(*  - generateVideo, the client poll loop (src/unnamed/part_008)           *)
(*  - POST /api/generate-video (src/unnamed/part_006)                      *)
(*  - PhotoRestoreApp, the pipeline controller of one browser session     *)
(*    (src/components/PhotoRestoreApp.tsx 694-1375)                        *)
(*  - EyeColorCacheService (src/lib/fingerprint.ts)                        *)
(*  - the rate limiter (src/lib/rate-limiter.ts)                           *)
(***************************************************************************)
EXTENDS Integers, Sequences, FiniteSets, TLC

(***************************************************************************)
(* Bounds of the model.                                                    *)
(***************************************************************************)
MaxDay == 1           \* days the clock may advance
MaxCount == 11        \* usage counts the rate limiter specification follows
MaxHours == 1         \* hours the browser clock may advance
MaxPictures == 12     \* pictures that arrive at the cache service

\* The request slots of the edit route.
Reqs == {1}
Handlers == {1, 2}    \* the invocations of POST /api/edit-image that can overlap

(***************************************************************************)
(* Program constants.                                                      *)
(***************************************************************************)
ChileLimit == 10      \* getRateLimit(true)
OtherLimit == 5       \* getRateLimit(false)
maxAttempts == 120    \* generateVideo: poll attempts per job
MAX_CACHE_AGE == 3600000   \* EyeColorCacheService: 1 hour, in ms
MAX_CACHE_IMAGES == 10     \* EyeColorCacheService.cleanup: image groups kept
maxRetries == 3       \* handleImageDrop: analysis attempts

VARIABLES
    env,              \* process.env, fixed for the life of the process
    rq,               \* per request: the locals of POST /api/edit-image
    rateLimitStore,   \* rate-limiter.ts: the entry of the one fingerprint
    today,            \* the current day (for isNewDay)
    vid,              \* the locals of one generateVideo call and its jobs
    rl,               \* the last call made to the rate limiter
    cache,            \* EyeColorCacheService.cache, in insertion order
    nowMs,            \* Date.now() of the browser, in ms
    cacheOp,          \* the last call made to the cache service
    app,              \* PhotoRestoreApp: the component's state
    inv,              \* the handler invocations of the component in flight
    urls              \* the object URLs created by generateVideo

vars == <<env, rq, rateLimitStore, today, vid, rl, cache, nowMs, cacheOp,
          app, inv, urls>>

(***************************************************************************)
(* Values.                                                                 *)
(***************************************************************************)
\* What sharp can do with a payload: decode and re-encode it ("image"),
\* read its header but fail to encode it ("badbody"), or not even read its
\* header ("notimage").
ImgKinds == {"image", "badbody", "notimage"}

NoImg == [origin |-> "none", kind |-> "none", form |-> "none"]
NoResult == [data |-> NoImg, mimeType |-> ""]
NoErr == [isError |-> FALSE, message |-> "none"]

Img(origin, kind) == [origin |-> origin, kind |-> kind, form |-> "raw"]

\* Prompts are sequences of tokens; "." is the final period.
Prompts == {<<"restore">>, <<"restore", ".">>}
EyeColors == {"", "blue"}

MsgRefused == "The AI did not return an edited image. It might have refused the request."
MsgGeminiApi == "gemini api error"
MsgReplicateRate == "Replicate API rate limit exceeded. Please try again later."
MsgReplicateOutput == "Unable to process Replicate output"
MsgSharp == "Input buffer contains unsupported image format"

Err(m) == [isError |-> TRUE, message |-> m]
NonError == [isError |-> FALSE, message |-> "thrown value"]


(***************************************************************************)
(* image-optimizer: optimizeImage and optimizeRestoredImage.               *)
(***************************************************************************)
\* optimizeImage(base64Input, mimeType, options): sharp(...).metadata() is
\* outside the try, so a payload sharp cannot read makes the call throw;
\* a failure of the resize/encode inside the try returns the original.
optimizeImage(base64Input, mimeType, large) ==
    IF base64Input.kind = "notimage"
    THEN [ok |-> FALSE, base64 |-> NoImg, mimeType |-> "", wasOptimized |-> FALSE,
          error |-> Err(MsgSharp)]
    ELSE IF ~large \/ base64Input.kind = "badbody"
    THEN [ok |-> TRUE, base64 |-> base64Input, mimeType |-> mimeType,
          wasOptimized |-> FALSE, error |-> NoErr]
    ELSE [ok |-> TRUE, base64 |-> [base64Input EXCEPT !.form = "resized"],
          mimeType |-> mimeType, wasOptimized |-> TRUE, error |-> NoErr]

\* optimizeRestoredImage(base64Input): re-encodes to JPEG; when that fails
\* the catch returns the input as 'image/png', but the catch itself calls
\* sharp(...).metadata() again, which throws for an unreadable payload.
optimizeRestoredImage(base64Input) ==
    CASE base64Input.kind = "image" ->
            [ok |-> TRUE, base64 |-> [base64Input EXCEPT !.form = "jpeg"],
             mimeType |-> "image/jpeg", error |-> NoErr]
      [] base64Input.kind = "badbody" ->
            [ok |-> TRUE, base64 |-> base64Input,
             mimeType |-> "image/png", error |-> NoErr]
      [] OTHER ->
            [ok |-> FALSE, base64 |-> NoImg, mimeType |-> "", error |-> Err(MsgSharp)]

(***************************************************************************)
(* route.ts: enhancePromptWithEyeColor.                                    *)
(***************************************************************************)
eyeColorGuidance(eyeColor) == "eye-guidance-" \o eyeColor

enhancePromptWithEyeColor(originalPrompt, eyeColor, hasEyeColorPotential) ==
    IF eyeColor = "" \/ ~hasEyeColorPotential
    THEN originalPrompt
    ELSE IF originalPrompt[Len(originalPrompt)] = "."
    THEN SubSeq(originalPrompt, 1, Len(originalPrompt) - 1)
            \o <<eyeColorGuidance(eyeColor)>> \o <<".">>
    ELSE originalPrompt \o <<eyeColorGuidance(eyeColor)>>

(***************************************************************************)
(* rate-limiter.ts                                                         *)
(***************************************************************************)
NoEntry == [present |-> FALSE, count |-> 0, lastReset |-> 0, country |-> "", lastAccess |-> 0]

getRateLimit(isChile) == IF isChile THEN ChileLimit ELSE OtherLimit

isNewDay(lastReset, now) == now > lastReset

Max(a, b) == IF a > b THEN a ELSE b

\* As Allowed, with a count equal to the limit let through.
AllowedInclusive(count, limit) == count <= limit

\* rate-limiter.ts 159: the decision of checkRateLimit.
Allowed(count, limit) == count < limit

\* checkRateLimit(fingerprint, request): the entry after the call and the
\* RateLimitResult it returns.
checkRateLimit(store, isChile, now) ==
    LET country == IF isChile THEN "Chile" ELSE "Unknown"
        limit == getRateLimit(isChile)
        entry == IF ~store.present
                 THEN [present |-> TRUE, count |-> 0, lastReset |-> now,
                       country |-> country, lastAccess |-> now]
                 ELSE IF isNewDay(store.lastReset, now)
                 THEN [store EXCEPT !.lastAccess = now, !.count = 0,
                                    !.lastReset = now, !.country = country]
                 ELSE [store EXCEPT !.lastAccess = now]
    IN [entry |-> entry,
        res |-> [allowed |-> Allowed(entry.count, limit),
                 remaining |-> Max(0, limit - entry.count),
                 resetTime |-> now + 1,
                 country |-> entry.country,
                 limit |-> limit]]

incrementUsage(store, now) ==
    IF store.present
    THEN [store EXCEPT !.count = @ + 1, !.lastAccess = now]
    ELSE store


(***************************************************************************)
(* POST /api/edit-image: the request bodies and the handler's locals.      *)
(***************************************************************************)
UploadKinds == {"image", "notimage"}

ValidBodies ==
    [base64ImageData : {Img("upload", k) : k \in UploadKinds},
     large : BOOLEAN,
     mimeType : {"image/jpeg"},
     prompt : Prompts,
     useDoublePass : BOOLEAN,
     browserFingerprint : BOOLEAN,
     eyeColor : EyeColors,
     hasEyeColorPotential : BOOLEAN]

DefaultBody ==
    [base64ImageData |-> Img("upload", "image"), large |-> FALSE,
     mimeType |-> "image/jpeg", prompt |-> <<"restore">>, useDoublePass |-> FALSE,
     browserFingerprint |-> FALSE, eyeColor |-> "", hasEyeColorPotential |-> FALSE]

\* One body for each required field that can be missing.
InvalidBodies ==
    { [DefaultBody EXCEPT !.base64ImageData = NoImg],
      [DefaultBody EXCEPT !.mimeType = ""],
      [DefaultBody EXCEPT !.prompt = <<>>] }

Bodies == ValidBodies \cup InvalidBodies

NoRateLimitInfo == [limit |-> 0, remaining |-> 0, resetTime |-> 0, country |-> ""]

NoResponse ==
    [status |-> 0, error |-> <<>>, data |-> NoImg, mimeType |-> "",
     rateLimitInfo |-> NoRateLimitInfo]

ErrorResponse(status, text) == [NoResponse EXCEPT !.status = status, !.error = text]

IdleRq ==
    [pc |-> "idle", body |-> DefaultBody, optimized |-> NoResult, mode |-> "none",
     firstPassResult |-> NoResult, result |-> NoResult, geminiError |-> NoErr,
     replicateError |-> NoErr,
     calls |-> <<>>, posts |-> <<>>, counted |-> 0, response |-> NoResponse]

\* One provider invocation as the handler makes it.
Call(site, provider, image, instruction, o) ==
    [site |-> site, provider |-> provider, image |-> image,
     instruction |-> instruction, ok |-> o.ok, error |-> o.error]

\* What one invocation of a provider can produce.
Success(site, k) ==
    [ok |-> TRUE, result |-> [data |-> Img(site, k), mimeType |-> "image/png"],
     error |-> NoErr]
Failure(e) == [ok |-> FALSE, result |-> NoResult, error |-> e]

\* gemini-server.ts editImage: an image part, no image part (refusal), or
\* whatever the SDK call throws, an Error or not.
editImageOutcomes(site) ==
    {Success(site, k) : k \in ImgKinds}
        \cup {Failure(e) : e \in {Err(MsgRefused), Err(MsgGeminiApi), NonError}}

\* replicate-server.ts restoreImageWithReplicate: every failure is rethrown
\* as an Error.
restoreImageWithReplicateOutcomes(site) ==
    {Success(site, k) : k \in ImgKinds}
        \cup {Failure(e) : e \in {Err(MsgReplicateRate), Err(MsgReplicateOutput)}}

\* The text of the outer catch (route.ts 176-182).
OuterCatchText(error) ==
    IF error.isError THEN <<error.message>> ELSE <<"Failed to edit image">>

\* As BothFailedText, with the primary's message left out.
BothFailedTextFallbackOnly(geminiError, replicateError) ==
    IF geminiError.isError
    THEN <<"Fallback also failed: ",
           IF replicateError.isError THEN replicateError.message ELSE "Unknown error">>
    ELSE <<"Both primary and fallback image restoration methods failed">>

\* The text built when the fallback failed too (route.ts 166-168).
BothFailedText(geminiError, replicateError) ==
    IF geminiError.isError
    THEN <<"Primary restoration failed: ", geminiError.message,
           ". Fallback also failed: ",
           IF replicateError.isError THEN replicateError.message ELSE "Unknown error">>
    ELSE <<"Both primary and fallback image restoration methods failed">>

\* As FallbackAllowed, with a refusal never handed to the fallback.
FallbackAllowedNoRefusal(geminiError) ==
    env.USE_REPLICATE_FALLBACK /\ env.REPLICATE_API_TOKEN
        /\ geminiError.message # MsgRefused

\* As FallbackAllowed, without the check of the token.
FallbackAllowedNoToken(geminiError) == env.USE_REPLICATE_FALLBACK

\* route.ts 134-142: the two checks made before the fallback is tried; the
\* error that was caught plays no part in them.
FallbackAllowed(geminiError) ==
    env.USE_REPLICATE_FALLBACK /\ env.REPLICATE_API_TOKEN

\* As Pass2Image, with pass 2 run on the request's image.
Pass2ImageOfRequest(loc) == loc.optimized.data

\* route.ts 103: the image pass 2 works on.
Pass2Image(loc) == loc.firstPassResult.data

\* As Pass2Result, with a failed pass 2 giving back the request's image.
Pass2ResultOfRequest(loc, o) == IF o.ok THEN o.result ELSE loc.optimized

\* route.ts 102-108: the result after pass 2; a failure keeps pass 1's.
Pass2Result(loc, o) == IF o.ok THEN o.result ELSE loc.firstPassResult

\* catch (geminiError), route.ts 130-142: rethrow to the outer catch when
\* the fallback is disabled or has no token, else go on to the fallback.
PrimaryFailed(loc, geminiError) ==
    IF ~FallbackAllowed(geminiError)
    THEN [loc EXCEPT !.geminiError = geminiError, !.pc = "done",
                     !.response = ErrorResponse(500, OuterCatchText(geminiError))]
    ELSE [loc EXCEPT !.geminiError = geminiError, !.pc = "fallback"]


(***************************************************************************)
(* POST /api/edit-image: one action per step between two awaits.           *)
(***************************************************************************)
EditUnchanged ==
    UNCHANGED <<env, today, vid, rl, cache, nowMs, cacheOp, app, inv, urls>>

\* route.ts 33-41: parse the body, reject a body with a missing field.
Receive(r) ==
    /\ rq[r].pc = "idle"
    /\ \E body \in Bodies :
          rq' = [rq EXCEPT ![r] =
                    IF body.base64ImageData = NoImg \/ body.mimeType = ""
                          \/ body.prompt = <<>>
                    THEN [IdleRq EXCEPT !.body = body, !.pc = "done",
                             !.response = ErrorResponse(400, <<"Missing required fields">>)]
                    ELSE [IdleRq EXCEPT !.body = body,
                             !.pc = IF body.browserFingerprint THEN "ratelimit"
                                                              ELSE "optimize"]]
    /\ UNCHANGED rateLimitStore
    /\ EditUnchanged

\* As Denied, with the generic error body only.
DeniedGeneric(res) == ErrorResponse(429, <<"Rate limit exceeded">>)

\* route.ts 48-57: the response to a request the rate limiter denies.
Denied(res) ==
    [ErrorResponse(429, <<"Rate limit exceeded">>)
        EXCEPT !.rateLimitInfo = [limit |-> res.limit, remaining |-> res.remaining,
                                  resetTime |-> res.resetTime, country |-> res.country]]

\* route.ts 43-58: await checkRateLimit, 429 when it denies.
RateLimit(r) ==
    /\ rq[r].pc = "ratelimit"
    /\ \E isChile \in BOOLEAN :
          LET chk == checkRateLimit(rateLimitStore, isChile, today)
          IN /\ rateLimitStore' = chk.entry
             /\ rq' = [rq EXCEPT ![r] =
                    IF ~chk.res.allowed
                    THEN [@ EXCEPT !.pc = "done", !.response = Denied(chk.res)]
                    ELSE [@ EXCEPT !.pc = "optimize"]]
    /\ EditUnchanged

\* route.ts 76: whether the request is restored in two passes.
DoublePass(useDoublePass) == useDoublePass /\ env.REPLICATE_API_TOKEN

\* route.ts 60-76 and 111-113: await optimizeImage (a throw goes to the outer
\* catch), then choose double pass or single pass.
OptimizeInput(r) ==
    /\ rq[r].pc = "optimize"
    /\ LET body == rq[r].body
           optimized == optimizeImage(body.base64ImageData, body.mimeType, body.large)
       IN rq' = [rq EXCEPT ![r] =
                    IF ~optimized.ok
                    THEN [@ EXCEPT !.pc = "done",
                             !.response = ErrorResponse(500, OuterCatchText(optimized.error))]
                    ELSE IF DoublePass(body.useDoublePass)
                    THEN [@ EXCEPT !.optimized = [data |-> optimized.base64,
                                                  mimeType |-> optimized.mimeType],
                                   !.mode = "double", !.pc = "pass1"]
                    ELSE [@ EXCEPT !.optimized = [data |-> optimized.base64,
                                                  mimeType |-> optimized.mimeType],
                                   !.mode = "single", !.pc = "single"]]
    /\ UNCHANGED rateLimitStore
    /\ EditUnchanged

\* route.ts 81-92: pass 1, restoreImageWithReplicate with an empty prompt.
Pass1(r) ==
    /\ rq[r].pc = "pass1"
    /\ \E o \in restoreImageWithReplicateOutcomes("pass1") :
          LET call == Call("pass1", "replicate", rq[r].optimized.data, <<>>, o)
          IN rq' = [rq EXCEPT ![r] =
                    IF o.ok
                    THEN [@ EXCEPT !.calls = Append(@, call),
                                   !.firstPassResult = o.result, !.pc = "pass2"]
                    ELSE [@ EXCEPT !.calls = Append(@, call), !.pc = "pass1retry"]]
    /\ UNCHANGED rateLimitStore
    /\ EditUnchanged

\* route.ts 87-92: pass 1 again through editImage with the enhanced prompt.
Pass1Retry(r) ==
    /\ rq[r].pc = "pass1retry"
    /\ \E o \in editImageOutcomes("pass1retry") :
          LET body == rq[r].body
              enhancedPrompt == enhancePromptWithEyeColor(body.prompt, body.eyeColor,
                                                          body.hasEyeColorPotential)
              call == Call("pass1retry", "gemini", rq[r].optimized.data, enhancedPrompt, o)
              loc == [rq[r] EXCEPT !.calls = Append(@, call)]
          IN rq' = [rq EXCEPT ![r] =
                    IF o.ok
                    THEN [loc EXCEPT !.firstPassResult = o.result, !.pc = "pass2"]
                    ELSE PrimaryFailed(loc, o.error)]
    /\ UNCHANGED rateLimitStore
    /\ EditUnchanged

\* route.ts 94-110: pass 2, editImage on pass 1's output; a failure keeps
\* pass 1's output.
Pass2(r) ==
    /\ rq[r].pc = "pass2"
    /\ \E o \in editImageOutcomes("pass2") :
          LET body == rq[r].body
              refinedPrompt == enhancePromptWithEyeColor(body.prompt, body.eyeColor,
                                                         body.hasEyeColorPotential)
              call == Call("pass2", "gemini", Pass2Image(rq[r]), refinedPrompt, o)
          IN rq' = [rq EXCEPT ![r] =
                    [@ EXCEPT !.calls = Append(@, call),
                              !.result = Pass2Result(rq[r], o),
                              !.pc = "post"]]
    /\ UNCHANGED rateLimitStore
    /\ EditUnchanged

\* route.ts 111-116: the single pass.
SinglePass(r) ==
    /\ rq[r].pc = "single"
    /\ \E o \in editImageOutcomes("single") :
          LET body == rq[r].body
              enhancedPrompt == enhancePromptWithEyeColor(body.prompt, body.eyeColor,
                                                          body.hasEyeColorPotential)
              call == Call("single", "gemini", rq[r].optimized.data, enhancedPrompt, o)
              loc == [rq[r] EXCEPT !.calls = Append(@, call)]
          IN rq' = [rq EXCEPT ![r] =
                    IF o.ok
                    THEN [loc EXCEPT !.result = o.result, !.pc = "post"]
                    ELSE PrimaryFailed(loc, o.error)]
    /\ UNCHANGED rateLimitStore
    /\ EditUnchanged

\* As Counted, with the count left as it is.
CountedNever(store, body) == store

\* route.ts 122-124 and 154-156: the store after the count of a success.
Counted(store, body) ==
    IF body.browserFingerprint THEN incrementUsage(store, today) ELSE store

\* As SuccessResponse, with the provider's output as it came.
SuccessResponseRaw(result, optimizedResult) ==
    [NoResponse EXCEPT !.status = 200, !.data = result.data,
                       !.mimeType = result.mimeType]

\* route.ts 126-129 and 158-161: the 200 response.
SuccessResponse(result, optimizedResult) ==
    [NoResponse EXCEPT !.status = 200, !.data = optimizedResult.base64,
                       !.mimeType = optimizedResult.mimeType]

\* route.ts 118-129: optimizeRestoredImage, incrementUsage, the 200
\* response; all of it inside the try whose catch is catch (geminiError).
PostProcess(r) ==
    /\ rq[r].pc = "post"
    /\ LET optimizedResult == optimizeRestoredImage(rq[r].result.data)
           loc == [rq[r] EXCEPT !.posts = Append(@, rq[r].result.data)]
       IN IF optimizedResult.ok
          THEN /\ rateLimitStore' = Counted(rateLimitStore, rq[r].body)
               /\ rq' = [rq EXCEPT ![r] =
                    [loc EXCEPT !.pc = "done",
                        !.counted = IF rq[r].body.browserFingerprint
                                       /\ rateLimitStore.present THEN @ + 1 ELSE @,
                        !.response = SuccessResponse(rq[r].result, optimizedResult)]]
          ELSE /\ rq' = [rq EXCEPT ![r] = PrimaryFailed(loc, optimizedResult.error)]
               /\ UNCHANGED rateLimitStore
    /\ EditUnchanged

\* route.ts 144-149 and 162-174: the fallback call; its failure ends the
\* request with the aggregated 500.
Fallback(r) ==
    /\ rq[r].pc = "fallback"
    /\ \E o \in restoreImageWithReplicateOutcomes("fallback") :
          LET call == Call("fallback", "replicate", rq[r].optimized.data,
                           rq[r].body.prompt, o)
              loc == [rq[r] EXCEPT !.calls = Append(@, call)]
          IN rq' = [rq EXCEPT ![r] =
                    IF o.ok
                    THEN [loc EXCEPT !.result = o.result, !.pc = "postfallback"]
                    ELSE [loc EXCEPT !.pc = "done", !.replicateError = o.error,
                             !.response = ErrorResponse(500,
                                 BothFailedText(loc.geminiError, o.error))]]
    /\ UNCHANGED rateLimitStore
    /\ EditUnchanged

\* route.ts 150-161: the post-processing of the fallback's output, inside
\* the try whose catch is catch (replicateError).
PostProcessFallback(r) ==
    /\ rq[r].pc = "postfallback"
    /\ LET optimizedResult == optimizeRestoredImage(rq[r].result.data)
           loc == [rq[r] EXCEPT !.posts = Append(@, rq[r].result.data)]
       IN IF optimizedResult.ok
          THEN /\ rateLimitStore' = Counted(rateLimitStore, rq[r].body)
               /\ rq' = [rq EXCEPT ![r] =
                    [loc EXCEPT !.pc = "done",
                        !.counted = IF rq[r].body.browserFingerprint
                                       /\ rateLimitStore.present THEN @ + 1 ELSE @,
                        !.response = SuccessResponse(rq[r].result, optimizedResult)]]
          ELSE /\ rq' = [rq EXCEPT ![r] =
                    [loc EXCEPT !.pc = "done",
                        !.replicateError = optimizedResult.error,
                        !.response = ErrorResponse(500,
                            BothFailedText(loc.geminiError, optimizedResult.error))]]
               /\ UNCHANGED rateLimitStore
    /\ EditUnchanged

\* The handler has returned; the slot is free for the next request.
Complete(r) ==
    /\ rq[r].pc = "done"
    /\ rq' = [rq EXCEPT ![r] = IdleRq]
    /\ UNCHANGED rateLimitStore
    /\ EditUnchanged

\* The clock passes midnight.
Tick ==
    /\ today < MaxDay
    /\ today' = today + 1
    /\ UNCHANGED <<env, rq, rateLimitStore, vid, rl, cache, nowMs, cacheOp,
                   app, inv, urls>>

\* rate-limiter.ts 32-39: the hourly sweep drops an entry not accessed for
\* a day.
Cleanup ==
    /\ rateLimitStore.present
    /\ rateLimitStore.lastAccess < today
    /\ rateLimitStore' = NoEntry
    /\ UNCHANGED <<env, rq, today, vid, rl, cache, nowMs, cacheOp,
                   app, inv, urls>>


(***************************************************************************)
(* The rate limiter as its callers use it: checkRateLimit and              *)
(* incrementUsage on the entry of one fingerprint, the clock, the sweep.   *)
(***************************************************************************)
NoRateCall ==
    [op |-> "none", isChile |-> FALSE, at |-> 0, before |-> NoEntry, entry |-> NoEntry,
     res |-> [allowed |-> FALSE, remaining |-> 0, resetTime |-> 0, country |-> "",
              limit |-> 0]]

RateUnchanged ==
    UNCHANGED <<env, rq, vid, cache, nowMs, cacheOp, app, inv, urls>>

\* rate-limiter.ts 124-169: one call of checkRateLimit, from either country.
CheckRateLimit ==
    /\ \E isChile \in BOOLEAN :
          LET chk == checkRateLimit(rateLimitStore, isChile, today)
          IN /\ rateLimitStore' = chk.entry
             /\ rl' = [op |-> "check", isChile |-> isChile, at |-> today,
                       before |-> rateLimitStore, entry |-> chk.entry, res |-> chk.res]
    /\ UNCHANGED today
    /\ RateUnchanged

\* rate-limiter.ts 187-194: one call of incrementUsage.
IncrementUsage ==
    /\ rateLimitStore.count < MaxCount
    /\ rateLimitStore' = incrementUsage(rateLimitStore, today)
    /\ rl' = [NoRateCall EXCEPT !.op = "increment", !.at = today,
                                !.before = rateLimitStore,
                                !.entry = incrementUsage(rateLimitStore, today)]
    /\ UNCHANGED today
    /\ RateUnchanged


(***************************************************************************)
(* EyeColorCacheService (fingerprint.ts 214-396).                          *)
(***************************************************************************)
\* The eye colours of the EyeColor type.
EYE_COLORS == {"brown", "blue", "green", "hazel", "gray", "amber"}

\* The eye colours a user picks in the model.
PickedColors == {"blue", "green"}

\* The values the first 100 characters of a base64 payload take.
Heads == {1, 2}

\* A picture as the browser holds it: its base64 payload, known by what it
\* shows (kind, file, corrected, color) and by its first 100 characters
\* (head), and its MIME type.
Pic(kind, file, corrected, color, head) ==
    [base64 |-> [kind |-> kind, file |-> file, corrected |-> corrected,
                 color |-> color, head |-> head],
     mimeType |-> "image/jpeg"]

NoBase64 == [kind |-> "none", file |-> "", corrected |-> FALSE, color |-> "", head |-> 0]
NoPic == [base64 |-> NoBase64, mimeType |-> ""]

\* A CachedImage, or the absence of one (null, undefined).
NoCached == [present |-> FALSE, base64 |-> NoBase64, mimeType |-> "", timestamp |-> 0]

\* fingerprint.ts 222-225: the key is made of the first 100 characters.
generateImageKey(base64) == base64.head

\* As Expired, with an entry aged exactly MAX_CACHE_AGE taken as expired.
ExpiredAtMaxAge(cached, t) == t - cached.timestamp >= MAX_CACHE_AGE

\* fingerprint.ts 272, 302, 337: the test of an entry's age.
Expired(cached, t) == t - cached.timestamp > MAX_CACHE_AGE

\* The position of the image group of a key, 0 when there is none.
GroupOf(c, imageKey) ==
    IF \E i \in 1..Len(c) : c[i].key = imageKey
    THEN CHOOSE i \in 1..Len(c) : c[i].key = imageKey
    ELSE 0

\* Math.min of the timestamps of a group's entries.
Oldest(group) ==
    LET ts == {group.entries[e].timestamp : e \in {x \in EYE_COLORS : group.entries[x].present}}
    IN CHOOSE t \in ts : \A u \in ts : t <= u

\* As SortsBefore, with the newest group first.
SortsBeforeNewestFirst(a, b) == Oldest(a) > Oldest(b)

\* fingerprint.ts 351-355: the order cleanup sorts the groups in.
SortsBefore(a, b) == Oldest(a) < Oldest(b)

\* As TieBefore, with the group inserted last put first.
TieBeforeLastInserted(j, i) == j > i

\* fingerprint.ts 350-351: Array.from keeps the Map's insertion order and
\* the sort is stable: of two groups as old, the one inserted first comes
\* first.
TieBefore(j, i) == j < i

RECURSIVE Keep(_, _)
\* The groups of c whose position is not in the set gone, in order.
Keep(c, gone) ==
    IF c = <<>> THEN <<>>
    ELSE LET rest == Keep(Tail(c), {i - 1 : i \in gone \ {1}})
         IN IF 1 \in gone THEN rest ELSE <<Head(c)>> \o rest

\* fingerprint.ts 331-361: cleanup(); expired entries go, then empty
\* groups, then the groups with the oldest entries while there are more
\* than 10 (a stable sort: of two groups as old, the first inserted goes).
cleanup(c, t) ==
    LET fresh == [i \in 1..Len(c) |->
                    [c[i] EXCEPT !.entries =
                        [e \in EYE_COLORS |->
                            IF c[i].entries[e].present /\ Expired(c[i].entries[e], t)
                            THEN NoCached ELSE c[i].entries[e]]]]
        empty == {i \in 1..Len(c) : \A e \in EYE_COLORS : ~fresh[i].entries[e].present}
        kept == Keep(fresh, empty)
        excess == Len(kept) - MAX_CACHE_IMAGES
        before(i) == {j \in 1..Len(kept) :
                        \/ SortsBefore(kept[j], kept[i])
                        \/ ~SortsBefore(kept[i], kept[j]) /\ TieBefore(j, i)}
    IN IF excess > 0
       THEN Keep(kept, {i \in 1..Len(kept) : Cardinality(before(i)) < excess})
       ELSE kept

\* fingerprint.ts 230-250: setCachedImage.
setCachedImage(c, originalBase64, eyeColor, restoredImage, t) ==
    LET imageKey == generateImageKey(originalBase64)
        c1 == IF GroupOf(c, imageKey) = 0
              THEN Append(c, [key |-> imageKey, entries |-> [e \in EYE_COLORS |-> NoCached]])
              ELSE c
        g == GroupOf(c1, imageKey)
    IN cleanup([c1 EXCEPT ![g].entries[eyeColor] =
                    [present |-> TRUE, base64 |-> restoredImage.base64,
                     mimeType |-> restoredImage.mimeType, timestamp |-> t]], t)

\* fingerprint.ts 255-278: getCachedImage; the cache after the call and
\* what the call returns.
getCachedImage(c, originalBase64, eyeColor, t) ==
    LET g == GroupOf(c, generateImageKey(originalBase64))
    IN IF g = 0 THEN [cache |-> c, result |-> NoCached]
       ELSE IF ~c[g].entries[eyeColor].present THEN [cache |-> c, result |-> NoCached]
       ELSE IF Expired(c[g].entries[eyeColor], t)
       THEN [cache |-> [c EXCEPT ![g].entries[eyeColor] = NoCached], result |-> NoCached]
       ELSE [cache |-> c, result |-> c[g].entries[eyeColor]]

\* fingerprint.ts 290-311: getCachedEyeColors; the array it returns is
\* taken as a set.
getCachedEyeColors(c, originalBase64, t) ==
    LET g == GroupOf(c, generateImageKey(originalBase64))
    IN IF g = 0 THEN [cache |-> c, result |-> {}]
       ELSE [cache |-> [c EXCEPT ![g].entries =
                           [e \in EYE_COLORS |->
                               IF c[g].entries[e].present /\ Expired(c[g].entries[e], t)
                               THEN NoCached ELSE c[g].entries[e]]],
             result |-> {e \in EYE_COLORS :
                            c[g].entries[e].present /\ ~Expired(c[g].entries[e], t)}]

\* fingerprint.ts 283-285: isCached; the cache after the call and what the
\* call returns.
isCached(c, originalBase64, eyeColor, t) ==
    LET got == getCachedImage(c, originalBase64, eyeColor, t)
    IN [cache |-> got.cache, result |-> got.result # NoCached]

\* fingerprint.ts 324-326: clearAllCache.
clearAllCache(c) == <<>>

(***************************************************************************)
(* The cache service under the calls a browser session can make.           *)
(***************************************************************************)
\* The restored pictures that are looked up, and the results stored.
CachePics == {Pic("restored", "f1", FALSE, "", h) : h \in Heads}
CacheResult(fp, variant, head) == Pic("eye", fp.base64.file, FALSE, variant, head)

NoWritten == [present |-> FALSE, fp |-> NoBase64, variant |-> "", img |-> NoPic, at |-> 0]
\* The last call made to the service, whether it was a lookup of what
\* the last setCachedImage wrote and what it returned, and that write.
NoCacheOp ==
    [op |-> "none", ofWritten |-> FALSE, result |-> NoCached, written |-> NoWritten]

\* What the browser clock advances by: one hour, or 1 ms from a whole hour.
TimeSteps(t) == IF t % MAX_CACHE_AGE = 0 THEN {1, MAX_CACHE_AGE} ELSE {MAX_CACHE_AGE}

CacheUnchanged ==
    UNCHANGED <<env, rq, rateLimitStore, today, vid, rl, app, inv, urls>>

SetCachedImageOf(pics) ==
    /\ \E fp \in pics, variant \in PickedColors, head \in Heads :
          /\ cache' = setCachedImage(cache, fp.base64, variant,
                                     CacheResult(fp, variant, head), nowMs)
          /\ cacheOp' = [op |-> "set", ofWritten |-> FALSE, result |-> NoCached,
                         written |-> [present |-> TRUE, fp |-> fp.base64,
                                      variant |-> variant,
                                      img |-> CacheResult(fp, variant, head),
                                      at |-> nowMs]]
    /\ UNCHANGED nowMs
    /\ CacheUnchanged

SetCachedImage == SetCachedImageOf(CachePics)

GetCachedImageOf(pics) ==
    /\ \E fp \in pics, variant \in PickedColors :
          LET got == getCachedImage(cache, fp.base64, variant, nowMs)
          IN /\ cache' = got.cache
             /\ cacheOp' =
                    IF cacheOp.written.present /\ cacheOp.written.fp = fp.base64
                          /\ cacheOp.written.variant = variant
                    THEN [cacheOp EXCEPT !.op = "get", !.ofWritten = TRUE,
                                         !.result = got.result]
                    ELSE [cacheOp EXCEPT !.op = "get", !.ofWritten = FALSE,
                                         !.result = NoCached]
    /\ UNCHANGED nowMs
    /\ CacheUnchanged

GetCachedImage == GetCachedImageOf(CachePics)

GetCachedEyeColors ==
    /\ \E fp \in CachePics :
          /\ cache' = getCachedEyeColors(cache, fp.base64, nowMs).cache
          /\ cacheOp' = [cacheOp EXCEPT !.op = "colors", !.ofWritten = FALSE,
                                        !.result = NoCached]
    /\ UNCHANGED nowMs
    /\ CacheUnchanged

ClearAllCache ==
    /\ cache' = clearAllCache(cache)
    /\ cacheOp' = [NoCacheOp EXCEPT !.op = "clear"]
    /\ UNCHANGED nowMs
    /\ CacheUnchanged

(***************************************************************************)
(* The cache service as restored pictures keep arriving.                   *)
(***************************************************************************)
\* The pictures that arrive, each with a head of its own.
FillPic(head) == Pic("restored", "f1", FALSE, "", head)

\* The head of the next picture: one more than the heads in the cache.
NextHead(c) ==
    IF c = <<>> THEN 1
    ELSE 1 + (CHOOSE k \in {c[i].key : i \in 1..Len(c)} :
                 \A i \in 1..Len(c) : c[i].key <= k)

\* The pictures looked up and written again: the one of the first group
\* of the cache.
FirstPics(c) == IF c = <<>> THEN {} ELSE {FillPic(c[1].key)}

\* setCachedImage for the eye colour of a picture that was not seen before.
FillNext ==
    /\ NextHead(cache) <= MaxPictures
    /\ LET fp == FillPic(NextHead(cache))
       IN cache' = setCachedImage(cache, fp.base64, "blue",
                                  CacheResult(fp, "blue", 1), nowMs)
    /\ cacheOp' = [NoCacheOp EXCEPT !.op = "set"]
    /\ UNCHANGED nowMs
    /\ CacheUnchanged

\* setCachedImage for another eye colour of a picture in the cache.
FillAgain ==
    /\ \E fp \in FirstPics(cache) :
          cache' = setCachedImage(cache, fp.base64, "green",
                                  CacheResult(fp, "green", 1), nowMs)
    /\ cacheOp' = [NoCacheOp EXCEPT !.op = "set"]
    /\ UNCHANGED nowMs
    /\ CacheUnchanged

FillGet ==
    /\ \E fp \in FirstPics(cache), variant \in PickedColors :
          cache' = getCachedImage(cache, fp.base64, variant, nowMs).cache
    /\ cacheOp' = [NoCacheOp EXCEPT !.op = "get"]
    /\ UNCHANGED nowMs
    /\ CacheUnchanged

FillIsCached ==
    /\ \E fp \in FirstPics(cache), variant \in PickedColors :
          cache' = isCached(cache, fp.base64, variant, nowMs).cache
    /\ cacheOp' = [NoCacheOp EXCEPT !.op = "isCached"]
    /\ UNCHANGED nowMs
    /\ CacheUnchanged

FillColors ==
    /\ \E fp \in FirstPics(cache) :
          cache' = getCachedEyeColors(cache, fp.base64, nowMs).cache
    /\ cacheOp' = [NoCacheOp EXCEPT !.op = "colors"]
    /\ UNCHANGED nowMs
    /\ CacheUnchanged

\* Time passes in the browser.
Elapse ==
    /\ \E d \in TimeSteps(nowMs) :
          /\ nowMs + d <= MaxHours * MAX_CACHE_AGE + 1
          /\ nowMs' = nowMs + d
    /\ cacheOp' = [cacheOp EXCEPT !.op = "elapse", !.ofWritten = FALSE,
                                  !.result = NoCached]
    /\ UNCHANGED cache
    /\ CacheUnchanged


(***************************************************************************)
(* generateVideo (client) and POST /api/generate-video (route).            *)
(***************************************************************************)
\* containsChildren is boolean | undefined.
ContainsChildrenValues == {"true", "false", "undefined"}

NoStart == [kind |-> "none", job |-> 0, provider |-> "none"]

\* A poll that got no status: a response that is not OK.
NoAnswer == [status |-> "not ok", output |-> FALSE]

IdleVid ==
    [pc |-> "idle", containsChildren |-> "undefined", initialProvider |-> "none",
     currentProvider |-> "none", fallbackAttempted |-> FALSE,
     startResult |-> NoStart, attempts |-> 0, polls |-> 0, starts |-> <<>>,
     status |-> [status |-> "none", output |-> FALSE],   \* the last poll's answer
     polled |-> [predictionId |-> 0, operationName |-> 0],  \* the last poll's body
     waited |-> 0,                                       \* the 5 s waits of the call
     interval |-> FALSE, outcome |-> "none"]

\* part_006 58: the provider the route starts the job on.
activeProvider(containsChildren) ==
    IF containsChildren = "false" THEN "gemini" ELSE env.VIDEO_PROVIDER

\* part_006 61-118: what a start request answers when the provider call
\* does not throw.
StartAnswer(containsChildren, job) ==
    LET provider == activeProvider(containsChildren)
    IN IF provider = "replicate"
       THEN IF env.USE_ASYNC_VIDEO
            THEN [kind |-> "predictionId", job |-> job, provider |-> provider]
            ELSE IF env.RETURN_URL_ONLY
            THEN [kind |-> "videoUrl", job |-> job, provider |-> provider]
            ELSE [kind |-> "videoBase64", job |-> job, provider |-> provider]
       ELSE IF env.USE_ASYNC_VIDEO
            THEN [kind |-> "operationName", job |-> job, provider |-> provider]
            ELSE [kind |-> "videoBase64", job |-> job, provider |-> provider]

\* What a status poll can answer: replicate-server.ts
\* checkVideoGenerationStatus passes the prediction's status on,
\* gemini-server.ts checkGeminiVideoStatus answers processing, succeeded or
\* failed; succeeded can come without an output.
StatusAnswers(provider) ==
    IF provider = "replicate"
    THEN {[status |-> s, output |-> FALSE] :
              s \in {"starting", "processing", "succeeded", "failed", "canceled"}}
            \cup {[status |-> "succeeded", output |-> TRUE]}
    ELSE {[status |-> s, output |-> FALSE] : s \in {"processing", "succeeded", "failed"}}
            \cup {[status |-> "succeeded", output |-> TRUE]}

MsgTimedOut == "Video generation timed out after 10 minutes"
MsgFailed == "Video generation failed"
MsgFailedBoth == "Video generation failed with both providers"
MsgStart == "Failed to start video generation"
MsgStatus == "Failed to check video status"
MsgDownload == "Failed to download generated video"

\* As Throw, without the finally clause.
ThrowNoFinally(v, message) == [v EXCEPT !.pc = "done", !.outcome = message]

\* The call ends by throwing: the finally clause clears the interval.
Throw(v, message) == [v EXCEPT !.pc = "done", !.outcome = message, !.interval = FALSE]

\* The call ends by returning an object URL.
Return(v) == [v EXCEPT !.pc = "done", !.outcome = "url", !.interval = FALSE]

VideoUnchanged ==
    UNCHANGED <<env, rq, rateLimitStore, today, rl, cache, nowMs, cacheOp,
                app, inv, urls>>

\* part_008 143-155: the call starts the progress timer and chooses the
\* initial provider.
GenerateVideo ==
    /\ vid.pc = "idle"
    /\ \E containsChildren \in ContainsChildrenValues :
          LET initialProvider == IF containsChildren = "false" THEN "gemini"
                                                              ELSE "replicate"
          IN vid' = [IdleVid EXCEPT !.pc = "start",
                        !.containsChildren = containsChildren,
                        !.initialProvider = initialProvider,
                        !.currentProvider = initialProvider,
                        !.interval = TRUE]
    /\ VideoUnchanged

\* What the client does with the answer to a start request (part_008
\* 189, 254-268).
AfterStart(v, answer) ==
    LET w == [v EXCEPT !.startResult = answer, !.polls = 0,
                       !.starts = Append(@, [forceProvider |-> v.currentProvider,
                                             provider |-> answer.provider,
                                             job |-> answer.job])]
    IN CASE answer.kind \in {"predictionId", "operationName"} ->
                [w EXCEPT !.pc = "poll", !.attempts = 0]
         [] answer.kind = "videoUrl" -> [w EXCEPT !.pc = "download"]
         [] OTHER -> Return(w)

\* part_008 158-186: the first start request.
StartVideo ==
    /\ vid.pc = "start"
    /\ \/ vid' = Throw(vid, MsgStart)
       \/ vid' = AfterStart(vid, StartAnswer(vid.containsChildren, Len(vid.starts) + 1))
    /\ VideoUnchanged

\* As PollContinues, off by one.
PollContinuesInclusive(v) == v.attempts <= maxAttempts

\* part_008 194: the loop condition.
PollContinues(v) == v.attempts < maxAttempts

\* As MayFallBack, looking at the initial provider only.
MayFallBackOfInitial(v) == v.initialProvider = "gemini"

\* part_008 230: the condition of the provider switch.
MayFallBack(v) == ~v.fallbackAttempted /\ v.currentProvider = "gemini"

\* As AttemptsAfterRestart, with the counter carried over.
AttemptsKept(v) == v.attempts

\* part_008 238: the attempts counter after the fallback's start.
AttemptsAfterRestart(v) == 0

\* The handling of a status answer, part_008 216-250.
AfterPoll(v, answer) ==
    IF answer.status = "succeeded" /\ answer.output
    THEN [v EXCEPT !.pc = "download"]
    ELSE IF answer.status \in {"failed", "canceled"}
    THEN IF MayFallBack(v)
         THEN [v EXCEPT !.fallbackAttempted = TRUE, !.currentProvider = "replicate",
                        !.pc = "restart"]
         ELSE Throw(v, IF v.fallbackAttempted THEN MsgFailedBoth ELSE MsgFailed)
    ELSE [v EXCEPT !.attempts = @ + 1]

\* As StatusBody, with the handles of the call's first start request.
StatusBodyOfFirstStart(v) ==
    [predictionId |-> IF v.startResult.kind = "predictionId" THEN v.starts[1].job ELSE 0,
     operationName |-> IF v.startResult.kind = "operationName" THEN v.starts[1].job ELSE 0]

\* part_008 203-206: the body of a status request; 0 is a handle the start
\* result does not have.
StatusBody(v) ==
    [predictionId |-> IF v.startResult.kind = "predictionId" THEN v.startResult.job ELSE 0,
     operationName |-> IF v.startResult.kind = "operationName" THEN v.startResult.job ELSE 0]

\* part_008 194-214: one turn of the poll loop: wait, ask for the status of
\* the current handle, handle the answer.
Poll ==
    /\ vid.pc = "poll"
    /\ PollContinues(vid)
    /\ LET v == [vid EXCEPT !.polls = @ + 1, !.waited = @ + 1,
                            !.polled = StatusBody(vid)]
       IN \/ vid' = Throw([v EXCEPT !.status = NoAnswer], MsgStatus)
          \/ \E answer \in StatusAnswers(vid.startResult.provider) :
                vid' = AfterPoll([v EXCEPT !.status = answer], answer)
    /\ VideoUnchanged

\* part_008 236-239: the start request of the fallback; the attempts
\* counter is reset once it has answered.
RestartVideo ==
    /\ vid.pc = "restart"
    /\ \/ vid' = Throw(vid, MsgStart)
       \/ LET answer == StartAnswer(vid.containsChildren, Len(vid.starts) + 1)
          IN vid' = [vid EXCEPT !.startResult = answer, !.polls = 0,
                        !.status = IdleVid.status, !.polled = IdleVid.polled,
                        !.attempts = AttemptsAfterRestart(vid), !.pc = "poll",
                        !.starts = Append(@, [forceProvider |-> "replicate",
                                              provider |-> answer.provider,
                                              job |-> answer.job])]
    /\ VideoUnchanged

\* part_008 253: the loop ends without a terminal status.
TimeOut ==
    /\ vid.pc = "poll"
    /\ ~PollContinues(vid)
    /\ vid' = Throw(vid, MsgTimedOut)
    /\ VideoUnchanged

\* part_008 219-226 and 256-261: the download of the finished video.
Download ==
    /\ vid.pc = "download"
    /\ \/ vid' = Throw(vid, MsgDownload)
       \/ vid' = Return(vid)
    /\ VideoUnchanged

\* The promise has settled; the next call can be made.
Settle ==
    /\ vid.pc = "done"
    /\ vid' = IdleVid
    /\ VideoUnchanged

(***************************************************************************)
(* PhotoRestoreApp (PhotoRestoreApp.tsx 718-1079): the component's state,  *)
(* its handlers and resetState.  A handler runs from one await to the      *)
(* next in one step; what it reads of the state is what the render it was  *)
(* created in held, what it sets goes to the component.                    *)
(***************************************************************************)
AppSteps == {"idle", "analyzing", "correcting", "restoring", "translating",
             "readyForVideo", "generatingVideo", "done"}

\* The handler invocations that can be in flight at one time.
Slots == {1, 2}

\* The credits useGrowthKit reports when a handler is triggered.
Credits == {0, 1, 2}

NoAnalysis ==
    [present |-> FALSE, containsChildren |-> FALSE, needsPerspectiveCorrection |-> FALSE,
     hasEyeColorPotential |-> FALSE, hasManyPeople |-> FALSE, isBlackAndWhite |-> FALSE,
     isVeryOld |-> FALSE, restorationPrompt |-> FALSE]

\* An analysis as /api/analyze-image gives it, with its restorationPrompt.
Photo(containsChildren, needsPerspectiveCorrection, hasEyeColorPotential, isBlackAndWhite) ==
    [present |-> TRUE, containsChildren |-> containsChildren,
     needsPerspectiveCorrection |-> needsPerspectiveCorrection,
     hasEyeColorPotential |-> hasEyeColorPotential, hasManyPeople |-> FALSE,
     isBlackAndWhite |-> isBlackAndWhite, isVeryOld |-> FALSE,
     restorationPrompt |-> TRUE]

\* The sessions followed: the language, the enhanced restoration checkbox
\* and what the analysis finds in the photograph; in the last one the
\* model's JSON comes without a restorationPrompt.
Sessions ==
    {[language |-> "en", enhancedRestoration |-> FALSE,
      photo |-> Photo(FALSE, FALSE, TRUE, FALSE)],
     [language |-> "es", enhancedRestoration |-> TRUE,
      photo |-> Photo(TRUE, TRUE, TRUE, TRUE)],
     [language |-> "en", enhancedRestoration |-> TRUE,
      photo |-> Photo(TRUE, FALSE, FALSE, FALSE)],
     [language |-> "es", enhancedRestoration |-> FALSE,
      photo |-> Photo(FALSE, TRUE, TRUE, TRUE)],
     [language |-> "en", enhancedRestoration |-> FALSE,
      photo |-> [Photo(TRUE, TRUE, FALSE, FALSE) EXCEPT !.restorationPrompt = FALSE]]}

\* The object URLs URL.createObjectURL can hand out.
UrlIds == {1, 2}

\* The eye-colour selections followed between two resets.
PickNumbers == {1, 2, 3}

MsgNoCreditsPhoto == "Not enough credits for photo restoration. Please get more credits."
MsgNoCreditsVideo == "Not enough credits for video generation. Please get more credits."
MsgCredit == "Failed to process credit payment. Please try again."
MsgUnknown == "An unknown error occurred."
MsgThrown == "err.message"

\* useState's initial values (721-735); language, enhancedRestoration and
\* photo do not change during a behaviour, picks counts the eye-colour
\* selections accepted since the last reset and made lists the colours
\* editImage has delivered for them.
IdleApp(language, enhancedRestoration, photo) ==
    [currentStep |-> "idle", error |-> "", loadingMessage |-> "",
     originalImage |-> NoPic, restoredImage |-> NoPic, videoUrl |-> 0,
     imageAnalysis |-> NoAnalysis, displayVideoPrompt |-> "",
     selectedEyeColor |-> "", cachedEyeColors |-> {}, isEyeColorLoading |-> FALSE,
     language |-> language, enhancedRestoration |-> enhancedRestoration,
     photo |-> photo, picks |-> 0, made |-> <<>>,
     browserFingerprint |-> FALSE, rateLimitInfo |-> NoRateLimitInfo]

FreeInv ==
    [handler |-> "none", pc |-> "free", stale |-> FALSE, resetAt |-> "", retryCount |-> 0,
     waits |-> <<>>, lastFailure |-> "",
     analysis |-> NoAnalysis, base64 |-> NoPic, imageToRestore |-> NoPic,
     restoredImage |-> NoPic, eyeColor |-> "", calls |-> <<>>]

HasFree == \E s \in Slots : inv[s].pc = "free"
NewSlot == CHOOSE s \in Slots : inv[s].pc = "free" /\ \A t \in Slots : inv[t].pc = "free" => s <= t

\* One call of the api-client, as the handler issues it.
Stage(stage, image, useDoublePass) ==
    [stage |-> stage, image |-> image, useDoublePass |-> useDoublePass]

AppUnchanged ==
    UNCHANGED <<env, rq, rateLimitStore, today, vid, rl, nowMs, cacheOp>>

\* 738-756: resetState, from the button shown while currentStep is not
\* idle.  Nothing is done about the invocations in flight; stale observes
\* that they were started before a reset, resetAt where they were at the
\* first one.
ResetState ==
    /\ app.currentStep # "idle"
    /\ app' = IdleApp(app.language, app.enhancedRestoration, app.photo)
    /\ urls' = IF app.videoUrl # 0 THEN [urls EXCEPT ![app.videoUrl] = "free"] ELSE urls
    /\ cache' = clearAllCache(cache)
    /\ inv' = [s \in Slots |-> IF inv[s].pc = "free" THEN inv[s]
                               ELSE [inv[s] EXCEPT !.stale = TRUE,
                                        !.resetAt = IF inv[s].stale THEN @ ELSE inv[s].pc]]
    /\ AppUnchanged

\* 758-774: a file is dropped on the Dropzone, which is rendered while
\* currentStep is idle; up to the await of completeAction.
HandleImageDrop ==
    /\ app.currentStep = "idle"
    /\ \E credits \in Credits :
          IF credits < 1
          THEN /\ app' = [app EXCEPT !.error = MsgNoCreditsPhoto]
               /\ UNCHANGED inv
          ELSE /\ HasFree
               /\ inv' = [inv EXCEPT ![NewSlot] =
                            [FreeInv EXCEPT !.handler = "drop", !.pc = "credit"]]
               /\ UNCHANGED app
    /\ UNCHANGED <<cache, urls>>
    /\ AppUnchanged

\* 769-784: completeAction has answered.
DropCredited(s) ==
    /\ inv[s].handler = "drop" /\ inv[s].pc = "credit"
    /\ \E success \in BOOLEAN :
          IF ~success
          THEN /\ app' = [app EXCEPT !.error = MsgCredit]
               /\ inv' = [inv EXCEPT ![s] = FreeInv]
          ELSE /\ app' = [app EXCEPT !.error = "", !.currentStep = "analyzing"]
               /\ inv' = [inv EXCEPT ![s].pc = "read"]
    /\ UNCHANGED <<cache, urls>>
    /\ AppUnchanged

\* 784-794: the file has been read; the first analyzeImage call is made.
DropFileRead(s) ==
    /\ inv[s].handler = "drop" /\ inv[s].pc = "read"
    /\ LET base64 == Pic("upload", "f1", FALSE, "", 1)
       IN /\ app' = [app EXCEPT !.originalImage = base64]
          /\ inv' = [inv EXCEPT ![s].base64 = base64, ![s].imageToRestore = base64,
                                ![s].pc = "analyze",
                                ![s].calls = Append(@, Stage("analysis", base64, FALSE))]
    /\ UNCHANGED <<cache, urls>>
    /\ AppUnchanged

\* As shouldUseDoublePass, without the look at the analysis.
shouldUseDoublePassIfEnhanced(enhancedRestoration, analysis) == enhancedRestoration

\* 843: shouldUseDoublePass.
shouldUseDoublePass(enhancedRestoration, analysis) ==
    enhancedRestoration
        /\ (analysis.hasManyPeople \/ analysis.isBlackAndWhite \/ analysis.isVeryOld)

\* As CorrectedImage, with the correction's output dropped.
CorrectedImageDropped(loc, corrected) == loc.imageToRestore

\* 861: imageToRestore after the perspective correction.
CorrectedImage(loc, corrected) == corrected

\* 885: the restoration call, on imageToRestore.
RestorationCall(loc, analysis, imageToRestore) ==
    Stage("restoration", imageToRestore,
          shouldUseDoublePass(app.enhancedRestoration, analysis))

\* 794-864: an analyzeImage call has returned a complete analysis; the
\* correction call is made if the analysis asks for it, else the
\* restoration call.
DropAnalyzed(s) ==
    /\ inv[s].handler = "drop" /\ inv[s].pc = "analyze"
    /\ LET analysis == app.photo
       IN IF analysis.needsPerspectiveCorrection
          THEN /\ app' = [app EXCEPT !.imageAnalysis = analysis,
                                     !.currentStep = "correcting"]
               /\ inv' = [inv EXCEPT ![s].analysis = analysis, ![s].pc = "correct",
                             ![s].calls = Append(@, Stage("correction", inv[s].base64, FALSE))]
          ELSE /\ app' = [app EXCEPT !.imageAnalysis = analysis,
                                     !.currentStep = "restoring"]
               /\ inv' = [inv EXCEPT ![s].analysis = analysis, ![s].pc = "restore",
                             ![s].calls = Append(@, RestorationCall(inv[s], analysis,
                                                                    inv[s].imageToRestore))]
    /\ UNCHANGED <<cache, urls>>
    /\ AppUnchanged

\* As MayRetry, with one attempt more.
MayRetryOnceMore(retryCount) == retryCount <= maxRetries

\* 806: after a failed attempt, whether another one is made.
MayRetry(retryCount) == retryCount < maxRetries

\* 811: the wait before the next attempt, in ms.
Backoff(retryCount) == 1000 * retryCount

\* 794-801: how an analysis attempt fails: analyzeImage throws for an
\* answer that is not OK (part_008 38-41), or the analysis comes without
\* containsChildren.
AnalysisFailures == {"error", "incomplete"}

\* 794-812: an analyzeImage call has thrown or returned an analysis
\* without containsChildren, and attempts are left: wait 1000 * retryCount ms.
DropAnalysisRetry(s) ==
    /\ inv[s].handler = "drop" /\ inv[s].pc = "analyze"
    /\ MayRetry(inv[s].retryCount + 1)
    /\ \E failure \in AnalysisFailures :
          inv' = [inv EXCEPT ![s].retryCount = @ + 1, ![s].pc = "backoff",
                             ![s].lastFailure = failure,
                             ![s].waits = Append(@, Backoff(inv[s].retryCount + 1))]
    /\ UNCHANGED <<app, cache, urls>>
    /\ AppUnchanged

\* 811, 792-794: the wait is over, the next analyzeImage call is made.
DropBackoffDone(s) ==
    /\ inv[s].handler = "drop" /\ inv[s].pc = "backoff"
    /\ inv' = [inv EXCEPT ![s].pc = "analyze", ![s].lastFailure = "",
                          ![s].calls = Append(@, Stage("analysis", inv[s].base64, FALSE))]
    /\ UNCHANGED <<app, cache, urls>>
    /\ AppUnchanged

\* 849-885: the correction has returned; the restoration call is made.
DropCorrected(s) ==
    /\ inv[s].handler = "drop" /\ inv[s].pc = "correct"
    /\ LET corrected == Pic("corrected", inv[s].base64.base64.file, TRUE, "", 1)
           imageToRestore == CorrectedImage(inv[s], corrected)
       IN /\ app' = [app EXCEPT !.currentStep = "restoring"]
          /\ inv' = [inv EXCEPT ![s].imageToRestore = imageToRestore,
                        ![s].pc = "restore",
                        ![s].calls = Append(@, RestorationCall(inv[s], inv[s].analysis,
                                                               imageToRestore))]
    /\ UNCHANGED <<cache, urls>>
    /\ AppUnchanged

\* 885-910: the restoration has returned (the route answers 400 to a
\* request without a prompt, route.ts 36-41); the translation call is made
\* when the language is Spanish, else the run ends in readyForVideo.
DropRestored(s) ==
    /\ inv[s].handler = "drop" /\ inv[s].pc = "restore"
    /\ inv[s].analysis.restorationPrompt
    /\ \E head \in {1} :
          LET restored == Pic("restored", inv[s].imageToRestore.base64.file,
                              inv[s].imageToRestore.base64.corrected, "", head)
          IN IF app.language = "es"
             THEN /\ app' = [app EXCEPT !.restoredImage = restored,
                                        !.currentStep = "translating"]
                  /\ inv' = [inv EXCEPT ![s].pc = "translate",
                                ![s].calls = Append(@, Stage("translation", NoPic, FALSE))]
             ELSE /\ app' = [app EXCEPT !.restoredImage = restored,
                                        !.displayVideoPrompt = "en",
                                        !.currentStep = "readyForVideo"]
                  /\ inv' = [inv EXCEPT ![s] = FreeInv]
    /\ UNCHANGED <<cache, urls>>
    /\ AppUnchanged

\* 905-910: the translation has returned.
DropTranslated(s) ==
    /\ inv[s].handler = "drop" /\ inv[s].pc = "translate"
    /\ app' = [app EXCEPT !.displayVideoPrompt = "es", !.currentStep = "readyForVideo"]
    /\ inv' = [inv EXCEPT ![s] = FreeInv]
    /\ UNCHANGED <<cache, urls>>
    /\ AppUnchanged

\* What the awaited call of a handleImageDrop invocation can throw into
\* catch (err): the file reader's Error or its error event, the Error made
\* after the last analysis attempt, the Error of a failed API call.
DropErrors(loc) ==
    CASE loc.pc = "read" -> {MsgThrown, MsgUnknown}
      [] loc.pc = "analyze" -> IF MayRetry(loc.retryCount + 1) THEN {} ELSE {MsgThrown}
      [] loc.pc \in {"correct", "restore", "translate"} -> {MsgThrown}
      [] OTHER -> {}

\* As DropCatchStep, with the step the failure happened in kept.
DropCatchStepKept(currentStep) == currentStep

\* 922: the step catch (err) of handleImageDrop sets.
DropCatchStep(currentStep) == "idle"

\* 913-923: catch (err) of handleImageDrop.
DropThrows(s) ==
    /\ inv[s].handler = "drop"
    /\ \E message \in DropErrors(inv[s]) :
          app' = [app EXCEPT !.error = message,
                             !.currentStep = DropCatchStep(app.currentStep)]
    /\ inv' = [inv EXCEPT ![s] = FreeInv]
    /\ UNCHANGED <<cache, urls>>
    /\ AppUnchanged

\* 926-942: the generate button of VideoDisplay is pressed; it is rendered
\* with a restored image and an analysis, in readyForVideo, generatingVideo
\* or done, while there is no video and currentStep is not generatingVideo.
HandleGenerateVideo ==
    /\ app.currentStep \in {"readyForVideo", "done"}
    /\ app.restoredImage # NoPic /\ app.imageAnalysis.present
    /\ app.videoUrl = 0
    /\ \E credits \in Credits :
          IF credits < 2
          THEN /\ app' = [app EXCEPT !.error = MsgNoCreditsVideo]
               /\ UNCHANGED inv
          ELSE /\ HasFree
               /\ inv' = [inv EXCEPT ![NewSlot] =
                            [FreeInv EXCEPT !.handler = "gen", !.pc = "credit",
                                            !.analysis = app.imageAnalysis,
                                            !.restoredImage = app.restoredImage]]
               /\ UNCHANGED app
    /\ UNCHANGED <<cache, urls>>
    /\ AppUnchanged

\* 937-980: completeAction has answered; generateVeoPrompt is called when
\* containsChildren === false, else generateVideo.
GenCredited(s) ==
    /\ inv[s].handler = "gen" /\ inv[s].pc = "credit"
    /\ \E success \in BOOLEAN :
          IF ~success
          THEN /\ app' = [app EXCEPT !.error = MsgCredit]
               /\ inv' = [inv EXCEPT ![s] = FreeInv]
          ELSE IF ~inv[s].analysis.containsChildren
          THEN /\ app' = [app EXCEPT !.error = "", !.currentStep = "generatingVideo",
                                     !.loadingMessage = "preparing"]
               /\ inv' = [inv EXCEPT ![s].pc = "veo",
                             ![s].calls = Append(@, Stage("veo", inv[s].restoredImage, FALSE))]
          ELSE /\ app' = [app EXCEPT !.error = "", !.currentStep = "generatingVideo",
                                     !.loadingMessage = "progress"]
               /\ inv' = [inv EXCEPT ![s].pc = "video",
                             ![s].calls = Append(@, Stage("video", inv[s].restoredImage, FALSE))]
    /\ UNCHANGED <<cache, urls>>
    /\ AppUnchanged

\* 959-980: generateVeoPrompt has returned or thrown (the throw is caught
\* and the run goes on); generateVideo is called.
GenVeoReturned(s) ==
    /\ inv[s].handler = "gen" /\ inv[s].pc = "veo"
    /\ app' = [app EXCEPT !.loadingMessage = "progress"]
    /\ inv' = [inv EXCEPT ![s].pc = "video",
                  ![s].calls = Append(@, Stage("video", inv[s].restoredImage, FALSE))]
    /\ UNCHANGED <<cache, urls>>
    /\ AppUnchanged

\* 972-987: generateVideo has returned the object URL it created.
GenVideoReturned(s) ==
    /\ inv[s].handler = "gen" /\ inv[s].pc = "video"
    /\ \E u \in UrlIds :
          /\ urls[u] = "free"
          /\ \A v \in UrlIds : urls[v] = "free" => u <= v
          /\ urls' = [urls EXCEPT ![u] = "live"]
          /\ app' = [app EXCEPT !.videoUrl = u, !.currentStep = "done"]
    /\ inv' = [inv EXCEPT ![s] = FreeInv]
    /\ UNCHANGED cache
    /\ AppUnchanged

\* As GenCatchStep, with the step left as it is.
GenCatchStepKept(currentStep) == currentStep

\* As GenCatchStep, back to idle.
GenCatchStepIdle(currentStep) == "idle"

\* 995: the step catch (err) of handleGenerateVideo sets.
GenCatchStep(currentStep) == "readyForVideo"

\* 988-997: generateVideo has thrown; catch (err) of handleGenerateVideo.
GenThrows(s) ==
    /\ inv[s].handler = "gen" /\ inv[s].pc = "video"
    /\ app' = [app EXCEPT !.error = MsgThrown,
                          !.currentStep = GenCatchStep(app.currentStep),
                          !.loadingMessage = ""]
    /\ inv' = [inv EXCEPT ![s] = FreeInv]
    /\ UNCHANGED <<cache, urls>>
    /\ AppUnchanged

\* 1000-1044: a colour of the eye-colour selector is picked; the selector is
\* rendered with an original image and an analysis with
\* hasEyeColorPotential, in readyForVideo, generatingVideo or done.  The
\* request is dropped at the guard, served from the cache, or sent to
\* editImage.
HandleEyeColorSelect ==
    /\ app.picks + 1 \in PickNumbers
    /\ app.currentStep \in {"readyForVideo", "generatingVideo", "done"}
    /\ app.originalImage # NoPic
    /\ app.imageAnalysis.present /\ app.imageAnalysis.hasEyeColorPotential
    /\ \E eyeColor \in PickedColors :
          LET got == getCachedImage(cache, app.restoredImage.base64, eyeColor, nowMs)
          IN IF app.restoredImage = NoPic \/ app.isEyeColorLoading
             THEN UNCHANGED <<app, inv, cache>>
             ELSE IF got.result.present
             THEN /\ app' = [app EXCEPT !.error = "", !.isEyeColorLoading = FALSE,
                                !.restoredImage = [base64 |-> got.result.base64,
                                                   mimeType |-> got.result.mimeType],
                                !.selectedEyeColor = eyeColor,
                                !.picks = @ + 1]
                  /\ cache' = got.cache
                  /\ UNCHANGED inv
             ELSE /\ HasFree
                  /\ app' = [app EXCEPT !.error = "", !.isEyeColorLoading = TRUE,
                                !.picks = @ + 1]
                  /\ cache' = got.cache
                  /\ inv' = [inv EXCEPT ![NewSlot] =
                               [FreeInv EXCEPT !.handler = "eye", !.pc = "edit",
                                   !.analysis = app.imageAnalysis,
                                   !.restoredImage = app.restoredImage,
                                   !.eyeColor = eyeColor,
                                   !.calls = <<Stage("eyecolor", app.restoredImage, FALSE)>>]]
    /\ UNCHANGED urls
    /\ AppUnchanged

\* 1047, 1062: the image the result is cached under.
CacheKeyImage(loc) == loc.restoredImage

\* 1033-1068, 1076-1078: editImage has returned the recoloured image.
EyeEdited(s) ==
    /\ inv[s].handler = "eye" /\ inv[s].pc = "edit"
    /\ \E head \in Heads :
          LET of == inv[s].restoredImage.base64
              restored == Pic("eye", of.file, of.corrected, inv[s].eyeColor, head)
              written == setCachedImage(cache, CacheKeyImage(inv[s]).base64,
                                        inv[s].eyeColor, restored, nowMs)
              listed == getCachedEyeColors(written, CacheKeyImage(inv[s]).base64, nowMs)
          IN /\ cache' = listed.cache
             /\ app' = [app EXCEPT !.restoredImage = restored,
                           !.selectedEyeColor = inv[s].eyeColor,
                           !.cachedEyeColors = listed.result,
                           !.isEyeColorLoading = FALSE,
                           !.made = IF inv[s].stale THEN @ ELSE Append(@, inv[s].eyeColor)]
    /\ inv' = [inv EXCEPT ![s] = FreeInv]
    /\ UNCHANGED urls
    /\ AppUnchanged

\* As EyeCatch, without the finally block.
EyeCatchNoFinally(a) == [a EXCEPT !.error = MsgThrown]

\* 1069-1078: what catch (err) and finally set.
EyeCatch(a) == [a EXCEPT !.error = MsgThrown, !.isEyeColorLoading = FALSE]

\* 1069-1078: editImage has thrown; catch (err) and finally.
EyeThrows(s) ==
    /\ inv[s].handler = "eye" /\ inv[s].pc = "edit"
    /\ app' = EyeCatch(app)
    /\ inv' = [inv EXCEPT ![s] = FreeInv]
    /\ UNCHANGED <<cache, urls>>
    /\ AppUnchanged

(***************************************************************************)
(* PhotoRestoreApp with the browser fingerprint (PhotoRestoreApp.tsx       *)
(* 265-520) on the api-client that knows the rate limit error              *)
(* (src/services/api-client.ts 47-89): the handlers whose edit calls the   *)
(* route can deny, the reset, the alert.                                   *)
(***************************************************************************)
MsgRateLimit == "Rate limit exceeded"

\* What /api/edit-image answers when it denies a request (route.ts 48-57).
DeniedAnswers ==
    {Denied([allowed |-> FALSE, remaining |-> 0, resetTime |-> 1,
             country |-> IF isChile THEN "Chile" ELSE "Unknown",
             limit |-> getRateLimit(isChile)]) : isChile \in BOOLEAN}

\* 303-321: resetState; rateLimitInfo is not among what it clears.
QuotaResetState ==
    /\ app.currentStep # "idle"
    /\ app' = [IdleApp(app.language, app.enhancedRestoration, app.photo)
                  EXCEPT !.browserFingerprint = app.browserFingerprint,
                         !.rateLimitInfo = app.rateLimitInfo]
    /\ cache' = clearAllCache(cache)
    /\ inv' = [s \in Slots |-> IF inv[s].pc = "free" THEN inv[s]
                               ELSE [inv[s] EXCEPT !.stale = TRUE,
                                        !.resetAt = IF inv[s].stale THEN @ ELSE inv[s].pc]]
    /\ UNCHANGED urls
    /\ AppUnchanged

\* 561-566: onClose of RateLimitAlert, rendered while rateLimitInfo is set.
QuotaCloseAlert ==
    /\ app.rateLimitInfo # NoRateLimitInfo
    /\ app' = [app EXCEPT !.rateLimitInfo = NoRateLimitInfo]
    /\ UNCHANGED <<inv, cache, urls>>
    /\ AppUnchanged

\* 323-329: a file is dropped on the Dropzone.
QuotaImageDrop ==
    /\ app.currentStep = "idle"
    /\ HasFree
    /\ app' = [app EXCEPT !.error = "", !.currentStep = "analyzing"]
    /\ inv' = [inv EXCEPT ![NewSlot] = [FreeInv EXCEPT !.handler = "drop", !.pc = "read"]]
    /\ UNCHANGED <<cache, urls>>
    /\ AppUnchanged

\* 329-332: the file has been read; analyzeImage is called.
QuotaFileRead(s) ==
    /\ inv[s].handler = "drop" /\ inv[s].pc = "read"
    /\ LET base64 == Pic("upload", "f1", FALSE, "", 1)
       IN /\ app' = [app EXCEPT !.originalImage = base64]
          /\ inv' = [inv EXCEPT ![s].base64 = base64, ![s].imageToRestore = base64,
                                ![s].pc = "analyze",
                                ![s].calls = Append(@, Stage("analysis", base64, FALSE))]
    /\ UNCHANGED <<cache, urls>>
    /\ AppUnchanged

\* 332-383: the analysis has returned; the correction is asked of
\* editImage if the analysis wants it, else the restoration.
QuotaAnalyzed(s) ==
    /\ inv[s].handler = "drop" /\ inv[s].pc = "analyze"
    /\ LET analysis == app.photo
           doublePass == shouldUseDoublePass(app.enhancedRestoration, analysis)
       IN IF analysis.needsPerspectiveCorrection
          THEN /\ app' = [app EXCEPT !.imageAnalysis = analysis,
                                     !.currentStep = "correcting"]
               /\ inv' = [inv EXCEPT ![s].analysis = analysis, ![s].pc = "correct",
                             ![s].calls = Append(@, Stage("correction", inv[s].base64, FALSE))]
          ELSE /\ app' = [app EXCEPT !.imageAnalysis = analysis,
                                     !.currentStep = "restoring"]
               /\ inv' = [inv EXCEPT ![s].analysis = analysis, ![s].pc = "restore",
                             ![s].calls = Append(@, Stage("restoration",
                                                          inv[s].imageToRestore, doublePass))]
    /\ UNCHANGED <<cache, urls>>
    /\ AppUnchanged

\* 349-383: the correction has returned; the restoration is asked.
QuotaCorrected(s) ==
    /\ inv[s].handler = "drop" /\ inv[s].pc = "correct"
    /\ LET corrected == Pic("corrected", inv[s].base64.base64.file, TRUE, "", 1)
           doublePass == shouldUseDoublePass(app.enhancedRestoration, inv[s].analysis)
       IN /\ app' = [app EXCEPT !.currentStep = "restoring"]
          /\ inv' = [inv EXCEPT ![s].imageToRestore = corrected, ![s].pc = "restore",
                        ![s].calls = Append(@, Stage("restoration", corrected, doublePass))]
    /\ UNCHANGED <<cache, urls>>
    /\ AppUnchanged

\* 383-398: the restoration has returned.
QuotaRestored(s) ==
    /\ inv[s].handler = "drop" /\ inv[s].pc = "restore"
    /\ LET restored == Pic("restored", inv[s].imageToRestore.base64.file,
                           inv[s].imageToRestore.base64.corrected, "", 1)
       IN IF app.language = "es"
          THEN /\ app' = [app EXCEPT !.restoredImage = restored,
                                     !.currentStep = "translating"]
               /\ inv' = [inv EXCEPT ![s].pc = "translate",
                             ![s].calls = Append(@, Stage("translation", NoPic, FALSE))]
          ELSE /\ app' = [app EXCEPT !.restoredImage = restored,
                                     !.displayVideoPrompt = "en",
                                     !.currentStep = "readyForVideo"]
               /\ inv' = [inv EXCEPT ![s] = FreeInv]
    /\ UNCHANGED <<cache, urls>>
    /\ AppUnchanged

\* 390-398: the translation has returned.
QuotaTranslated(s) ==
    /\ inv[s].handler = "drop" /\ inv[s].pc = "translate"
    /\ app' = [app EXCEPT !.displayVideoPrompt = "es", !.currentStep = "readyForVideo"]
    /\ inv' = [inv EXCEPT ![s] = FreeInv]
    /\ UNCHANGED <<cache, urls>>
    /\ AppUnchanged

\* services/api-client.ts 74-86: what editImage throws for the answers
\* that are not OK: the rate limit error for a 429 with rateLimitInfo,
\* which the route gives to requests carrying a fingerprint, else an Error.
EditErrors ==
    {[isRateLimit |-> FALSE, rateLimitInfo |-> NoRateLimitInfo, message |-> MsgThrown]}
        \cup IF app.browserFingerprint
             THEN {[isRateLimit |-> TRUE, rateLimitInfo |-> answer.rateLimitInfo,
                    message |-> MsgRateLimit] : answer \in DeniedAnswers}
             ELSE {}

\* What the awaited call of an upload can throw.
QuotaDropErrors(loc) ==
    CASE loc.pc \in {"correct", "restore"} -> EditErrors
      [] loc.pc = "read" ->
            {[isRateLimit |-> FALSE, rateLimitInfo |-> NoRateLimitInfo, message |-> m] :
                m \in {MsgThrown, MsgUnknown}}
      [] loc.pc \in {"analyze", "translate"} ->
            {[isRateLimit |-> FALSE, rateLimitInfo |-> NoRateLimitInfo, message |-> MsgThrown]}
      [] OTHER -> {}

\* 402-418: catch (err) of handleImageDrop.
QuotaDropThrows(s) ==
    /\ inv[s].handler = "drop"
    /\ \E err \in QuotaDropErrors(inv[s]) :
          app' = IF err.isRateLimit /\ err.rateLimitInfo # NoRateLimitInfo
                 THEN [app EXCEPT !.rateLimitInfo = err.rateLimitInfo,
                                  !.currentStep = "idle"]
                 ELSE [app EXCEPT !.error = err.message, !.currentStep = "idle"]
    /\ inv' = [inv EXCEPT ![s] = FreeInv]
    /\ UNCHANGED <<cache, urls>>
    /\ AppUnchanged

\* 488-493: catch (err) and finally of handleEyeColorSelect.
QuotaEyeCatch(a, err) ==
    [a EXCEPT !.error = err.message, !.isEyeColorLoading = FALSE]

\* 444-471: a colour of the eye-colour selector is picked: dropped at the
\* guard, served from the cache, or sent to editImage with the original.
QuotaEyeColorSelect ==
    /\ app.picks + 1 \in PickNumbers
    /\ app.currentStep \in {"readyForVideo", "generatingVideo", "done"}
    /\ app.imageAnalysis.present /\ app.imageAnalysis.hasEyeColorPotential
    /\ \E eyeColor \in PickedColors :
          LET got == getCachedImage(cache, app.originalImage.base64, eyeColor, nowMs)
          IN IF app.originalImage = NoPic \/ app.isEyeColorLoading
             THEN UNCHANGED <<app, inv, cache>>
             ELSE IF got.result.present
             THEN /\ app' = [app EXCEPT !.error = "", !.isEyeColorLoading = FALSE,
                                !.restoredImage = [base64 |-> got.result.base64,
                                                   mimeType |-> got.result.mimeType],
                                !.selectedEyeColor = eyeColor,
                                !.picks = @ + 1]
                  /\ cache' = got.cache
                  /\ UNCHANGED inv
             ELSE /\ HasFree
                  /\ app' = [app EXCEPT !.error = "", !.isEyeColorLoading = TRUE,
                                !.picks = @ + 1]
                  /\ cache' = got.cache
                  /\ inv' = [inv EXCEPT ![NewSlot] =
                               [FreeInv EXCEPT !.handler = "eye", !.pc = "edit",
                                   !.analysis = app.imageAnalysis,
                                   !.base64 = app.originalImage,
                                   !.eyeColor = eyeColor,
                                   !.calls = <<Stage("eyecolor", app.originalImage,
                                                     shouldUseDoublePass(
                                                         app.enhancedRestoration,
                                                         app.imageAnalysis))>>]]
    /\ UNCHANGED urls
    /\ AppUnchanged

\* 462-487, 491-493: editImage has returned; the answer {data, mimeType}
\* is handed to setCachedImage as it is, which reads its base64.
QuotaEyeEdited(s) ==
    /\ inv[s].handler = "eye" /\ inv[s].pc = "edit"
    /\ LET of == inv[s].base64.base64
           restored == Pic("eye", of.file, of.corrected, inv[s].eyeColor, 1)
           written == setCachedImage(cache, inv[s].base64.base64, inv[s].eyeColor,
                                     [base64 |-> NoBase64, mimeType |-> restored.mimeType],
                                     nowMs)
           listed == getCachedEyeColors(written, inv[s].base64.base64, nowMs)
       IN /\ cache' = listed.cache
          /\ app' = [app EXCEPT !.restoredImage = restored,
                        !.selectedEyeColor = inv[s].eyeColor,
                        !.cachedEyeColors = listed.result,
                        !.isEyeColorLoading = FALSE,
                        !.made = IF inv[s].stale THEN @ ELSE Append(@, inv[s].eyeColor)]
    /\ inv' = [inv EXCEPT ![s] = FreeInv]
    /\ UNCHANGED urls
    /\ AppUnchanged

\* 488-493: editImage has thrown.
QuotaEyeThrows(s) ==
    /\ inv[s].handler = "eye" /\ inv[s].pc = "edit"
    /\ \E err \in EditErrors : app' = QuotaEyeCatch(app, err)
    /\ inv' = [inv EXCEPT ![s] = FreeInv]
    /\ UNCHANGED <<cache, urls>>
    /\ AppUnchanged

(***************************************************************************)
(* Specifications.                                                         *)
(***************************************************************************)
VideoEnv == [VIDEO_PROVIDER : {"replicate", "gemini"}, USE_ASYNC_VIDEO : BOOLEAN,
             RETURN_URL_ONLY : BOOLEAN]
EditEnv == [USE_REPLICATE_FALLBACK : BOOLEAN, REPLICATE_API_TOKEN : BOOLEAN]

MakeEnv(e, v) ==
    [USE_REPLICATE_FALLBACK |-> e.USE_REPLICATE_FALLBACK,
     REPLICATE_API_TOKEN |-> e.REPLICATE_API_TOKEN,
     VIDEO_PROVIDER |-> v.VIDEO_PROVIDER,
     USE_ASYNC_VIDEO |-> v.USE_ASYNC_VIDEO,
     RETURN_URL_ONLY |-> v.RETURN_URL_ONLY]

DefaultEditEnv == [USE_REPLICATE_FALLBACK |-> TRUE, REPLICATE_API_TOKEN |-> TRUE]
DefaultVideoEnv == [VIDEO_PROVIDER |-> "replicate", USE_ASYNC_VIDEO |-> TRUE,
                    RETURN_URL_ONLY |-> FALSE]

DefaultPhoto ==
    [NoAnalysis EXCEPT !.present = TRUE]

InitCommon ==
    /\ rq = [r \in Handlers |-> IdleRq]
    /\ rateLimitStore = NoEntry
    /\ today = 0
    /\ vid = IdleVid
    /\ rl = NoRateCall
    /\ cache = <<>>
    /\ nowMs = 0
    /\ cacheOp = NoCacheOp
    /\ inv = [s \in Slots |-> FreeInv]
    /\ urls = [u \in UrlIds |-> "free"]

\* The edit route under every configuration of the fallback.
InitEdit ==
    /\ InitCommon
    /\ app = IdleApp("en", FALSE, DefaultPhoto)
    /\ \E e \in EditEnv : env = MakeEnv(e, DefaultVideoEnv)

NextEdit ==
    \/ \E r \in Reqs :
          \/ Receive(r) \/ RateLimit(r) \/ OptimizeInput(r)
          \/ Pass1(r) \/ Pass1Retry(r) \/ Pass2(r) \/ SinglePass(r)
          \/ PostProcess(r) \/ Fallback(r) \/ PostProcessFallback(r)
          \/ Complete(r)

SpecEdit == InitEdit /\ [][NextEdit]_vars

\* The request one browser sends again and again: a small photograph, a
\* single pass, its fingerprint.
CountedBody == [DefaultBody EXCEPT !.browserFingerprint = TRUE]

\* route.ts 33-41: such a request arrives.
ReceiveCounted(r) == Receive(r) /\ rq'[r].body = CountedBody

\* Two invocations of the handler that overlap, for requests of one
\* fingerprint.
NextRace ==
    \/ \E r \in Handlers :
          \/ ReceiveCounted(r) \/ RateLimit(r) \/ OptimizeInput(r)
          \/ SinglePass(r) \/ PostProcess(r) \/ Fallback(r)
          \/ PostProcessFallback(r) \/ Complete(r)

SpecRace == InitEdit /\ [][NextRace]_vars

\* The video client against the video route under every configuration.
InitVideo ==
    /\ InitCommon
    /\ app = IdleApp("en", FALSE, DefaultPhoto)
    /\ \E v \in VideoEnv : env = MakeEnv(DefaultEditEnv, v)

NextVideo ==
    \/ GenerateVideo \/ StartVideo \/ Poll \/ RestartVideo
    \/ TimeOut \/ Download \/ Settle

SpecVideo == InitVideo /\ [][NextVideo]_vars

\* The rate limiter under any sequence of calls, midnights and sweeps.
InitRate ==
    /\ InitCommon
    /\ env = MakeEnv(DefaultEditEnv, DefaultVideoEnv)
    /\ app = IdleApp("en", FALSE, DefaultPhoto)

NextRate == CheckRateLimit \/ IncrementUsage \/ Tick \/ Cleanup

SpecRate == InitRate /\ [][NextRate]_vars

\* The cache service under any sequence of calls, as time passes.
InitCache ==
    /\ InitCommon
    /\ env = MakeEnv(DefaultEditEnv, DefaultVideoEnv)
    /\ app = IdleApp("en", FALSE, DefaultPhoto)

NextCache ==
    \/ SetCachedImage \/ GetCachedImage \/ GetCachedEyeColors
    \/ ClearAllCache \/ Elapse

SpecCache == InitCache /\ [][NextCache]_vars

\* The restored pictures of two files, which share their first 100
\* characters, as the JPEG payloads of one encoder do.
Files == {"f1", "f2"}
AlikePics == {Pic("restored", file, FALSE, "", 1) : file \in Files}

\* The cache service under writes and lookups for pictures that can share
\* their first 100 characters.
NextAlike ==
    \/ SetCachedImageOf(AlikePics) \/ GetCachedImageOf(AlikePics) \/ Elapse

SpecAlike == InitCache /\ [][NextAlike]_vars

\* The cache service as more pictures arrive than it keeps.
NextFill ==
    \/ FillNext \/ FillAgain \/ FillGet \/ FillIsCached \/ FillColors
    \/ Elapse

SpecFill == InitCache /\ [][NextFill]_vars

\* One browser session of PhotoRestoreApp: uploads, video generations and
\* resets, in each of the sessions followed.
InitApp ==
    /\ InitCommon
    /\ env = MakeEnv(DefaultEditEnv, DefaultVideoEnv)
    /\ \E session \in Sessions :
          app = IdleApp(session.language, session.enhancedRestoration, session.photo)

NextApp ==
    \/ ResetState \/ HandleImageDrop \/ HandleGenerateVideo
    \/ \E s \in Slots :
          \/ DropCredited(s) \/ DropFileRead(s) \/ DropAnalyzed(s)
          \/ DropAnalysisRetry(s) \/ DropBackoffDone(s) \/ DropCorrected(s)
          \/ DropRestored(s) \/ DropTranslated(s) \/ DropThrows(s)
          \/ GenCredited(s) \/ GenVeoReturned(s)
          \/ GenVideoReturned(s) \/ GenThrows(s)

SpecApp == InitApp /\ [][NextApp]_vars

\* The upload and the video generation of one browser session down to the
\* requests of generateVideo: the call awaited by handleGenerateVideo
\* (PhotoRestoreApp.tsx 972-980) is the one vid follows.
AwaitsVideo(s) == inv[s].handler = "gen" /\ inv[s].pc = "video"

\* No handler is in flight and no generateVideo call is pending.
Quiet == vid.pc = "idle" /\ \A s \in Slots : inv[s].pc = "free"

\* 758-774: a file is dropped while no handler is in flight.
DropWhenQuiet == Quiet /\ HandleImageDrop

\* 926-942: the generate button is pressed while no handler is in flight.
PressGenerate == Quiet /\ HandleGenerateVideo

\* 972-980, part_008 143-155: generateVideo is entered with the analysis'
\* containsChildren.
EnterGenerateVideo ==
    /\ GenerateVideo
    /\ \E s \in Slots :
          /\ AwaitsVideo(s)
          /\ vid'.containsChildren =
                 (IF inv[s].analysis.containsChildren THEN "true" ELSE "false")

\* 980-987: the awaited generateVideo has returned an object URL.
VideoResolved(s) ==
    /\ vid.pc = "done" /\ vid.outcome = "url"
    /\ GenVideoReturned(s)

\* 988-997: the awaited generateVideo has thrown.
VideoRejected(s) ==
    /\ vid.pc = "done" /\ vid.outcome # "url"
    /\ GenThrows(s)

\* The call's promise has been consumed by the handler.
SettleConsumed ==
    /\ \A s \in Slots : ~AwaitsVideo(s)
    /\ Settle

\* What an invocation does when the call it awaits returns or throws.
Returns(s) ==
    \/ DropCredited(s) \/ DropFileRead(s) \/ DropAnalyzed(s)
    \/ DropAnalysisRetry(s) \/ DropBackoffDone(s) \/ DropCorrected(s)
    \/ DropRestored(s) \/ DropTranslated(s) \/ DropThrows(s)
    \/ GenCredited(s) \/ GenVeoReturned(s)
    \/ VideoResolved(s) \/ VideoRejected(s)

\* What generateVideo does when the request it awaits is answered.
Answered ==
    \/ EnterGenerateVideo \/ StartVideo \/ Poll \/ RestartVideo
    \/ TimeOut \/ Download \/ SettleConsumed

NextLive ==
    \/ DropWhenQuiet \/ PressGenerate
    \/ \E s \in Slots : Returns(s)
    \/ Answered

\* Every call awaited returns or throws in the end (fetch, the file
\* reader, completeAction, the timers of the backoff and of the poll
\* loop); nothing is assumed of what the user does.
Fairness ==
    /\ \A s \in Slots : WF_vars(Returns(s))
    /\ WF_vars(Answered)

\* The sessions whose upload goes through every step: the photograph needs
\* the perspective correction and the prompt is translated; one has
\* children in it, one has not.
LiveSessions ==
    {session \in Sessions :
        /\ session.language = "es"
        /\ session.photo.needsPerspectiveCorrection
        /\ session.photo.restorationPrompt}

InitLive ==
    /\ InitCommon
    /\ env = MakeEnv(DefaultEditEnv, DefaultVideoEnv)
    /\ \E session \in LiveSessions :
          app = IdleApp(session.language, session.enhancedRestoration, session.photo)

SpecLive == InitLive /\ [][NextLive]_vars /\ Fairness

\* PhotoRestoreApp with its invocations overlapping and resetState, the
\* generateVideo call taken as one step, under the same fairness.
NextAppReturns(s) ==
    \/ DropCredited(s) \/ DropFileRead(s) \/ DropAnalyzed(s)
    \/ DropAnalysisRetry(s) \/ DropBackoffDone(s) \/ DropCorrected(s)
    \/ DropRestored(s) \/ DropTranslated(s) \/ DropThrows(s)
    \/ GenCredited(s) \/ GenVeoReturned(s)
    \/ GenVideoReturned(s) \/ GenThrows(s)

SpecAppLive == SpecApp /\ \A s \in Slots : WF_vars(NextAppReturns(s))

\* One browser session of PhotoRestoreApp: uploads, eye-colour selections
\* and resets, on the photographs the selector is rendered for.
EyeSessions ==
    {session \in Sessions :
        session.photo.hasEyeColorPotential /\ session.language = "en"}

InitEye ==
    /\ InitCommon
    /\ env = MakeEnv(DefaultEditEnv, DefaultVideoEnv)
    /\ \E session \in EyeSessions :
          app = IdleApp(session.language, session.enhancedRestoration, session.photo)

NextEye ==
    \/ ResetState \/ HandleImageDrop \/ HandleEyeColorSelect
    \/ \E s \in Slots :
          \/ DropCredited(s) \/ DropFileRead(s) \/ DropAnalyzed(s)
          \/ DropRestored(s) \/ DropThrows(s)
          \/ EyeEdited(s) \/ EyeThrows(s)

SpecEye == InitEye /\ [][NextEye]_vars

\* One browser session without resets, uploads and eye-colour selections,
\* against a route under every configuration of the Replicate token.
InitUpload ==
    /\ InitCommon
    /\ \E token \in BOOLEAN :
          env = MakeEnv([DefaultEditEnv EXCEPT !.REPLICATE_API_TOKEN = token],
                        DefaultVideoEnv)
    /\ \E session \in Sessions :
          app = IdleApp(session.language, session.enhancedRestoration, session.photo)

NextUpload ==
    \/ HandleImageDrop \/ HandleEyeColorSelect
    \/ \E s \in Slots :
          \/ DropCredited(s) \/ DropFileRead(s) \/ DropAnalyzed(s)
          \/ DropCorrected(s) \/ DropRestored(s) \/ DropTranslated(s)
          \/ DropThrows(s) \/ EyeEdited(s) \/ EyeThrows(s)

SpecUpload == InitUpload /\ [][NextUpload]_vars


\* One browser session of the PhotoRestoreApp that sends its fingerprint,
\* with and without one, in each of the sessions followed.
QuotaSessions == {session \in Sessions : session.photo.restorationPrompt}

InitQuota ==
    /\ InitCommon
    /\ env = MakeEnv(DefaultEditEnv, DefaultVideoEnv)
    /\ \E session \in QuotaSessions, browserFingerprint \in BOOLEAN :
          app = [IdleApp(session.language, session.enhancedRestoration, session.photo)
                    EXCEPT !.browserFingerprint = browserFingerprint]

NextQuota ==
    \/ QuotaResetState \/ QuotaCloseAlert \/ QuotaImageDrop \/ QuotaEyeColorSelect
    \/ \E s \in Slots :
          \/ QuotaFileRead(s) \/ QuotaAnalyzed(s) \/ QuotaCorrected(s)
          \/ QuotaRestored(s) \/ QuotaTranslated(s) \/ QuotaDropThrows(s)
          \/ QuotaEyeEdited(s) \/ QuotaEyeThrows(s)

SpecQuota == InitQuota /\ [][NextQuota]_vars


(***************************************************************************)
(* Properties of POST /api/edit-image (SpecEdit).                          *)
(***************************************************************************)
CallsAt(loc, sites) == {i \in 1..Len(loc.calls) : loc.calls[i].site \in sites}
CallsOf(loc, provider) == {i \in 1..Len(loc.calls) : loc.calls[i].provider = provider}
Contains(text, m) == \E i \in 1..Len(text) : text[i] = m
FullInstruction(body) ==
    enhancePromptWithEyeColor(body.prompt, body.eyeColor, body.hasEyeColorPotential)
FallbackConfigured == env.USE_REPLICATE_FALLBACK /\ env.REPLICATE_API_TOKEN

\* C1: in single-pass mode editImage is invoked exactly once, the fallback
\* provider at most once and only after that invocation failed, and the
\* request makes at most 2 provider invocations.
C1_SinglePassAttempts ==
    \A r \in Reqs :
        LET loc == rq[r] IN
        loc.mode = "single" =>
            /\ Cardinality(CallsOf(loc, "gemini")) <= 1
            /\ loc.pc # "single" => Cardinality(CallsOf(loc, "gemini")) = 1
            /\ Cardinality(CallsOf(loc, "replicate")) <= 1
            /\ \A i \in CallsOf(loc, "replicate") :
                  /\ i = 2
                  /\ loc.calls[1].provider = "gemini"
                  /\ ~loc.calls[1].ok
            /\ Len(loc.calls) <= 2

\* The primary invocations whose refusal reaches catch (geminiError).
RefusedAt(loc) ==
    {i \in CallsAt(loc, {"single", "pass1retry"}) :
        ~loc.calls[i].ok /\ loc.calls[i].error = Err(MsgRefused)}

C3_DoublePassOrder ==
    \A r \in Reqs :
        LET loc == rq[r]
            c == loc.calls
            full == FullInstruction(loc.body)
        IN loc.mode = "double" =>
            /\ loc.pc # "pass1" =>
                  /\ Len(c) >= 1
                  /\ c[1].site = "pass1" /\ c[1].provider = "replicate"
                  /\ c[1].instruction = <<>>
                  /\ c[1].image = loc.optimized.data
            /\ CallsAt(loc, {"pass1"}) \subseteq {1}
            /\ (Len(c) >= 1 /\ ~c[1].ok /\ loc.pc # "pass1retry") =>
                  /\ Len(c) >= 2
                  /\ c[2].site = "pass1retry" /\ c[2].provider = "gemini"
                  /\ c[2].instruction = full
                  /\ c[2].instruction # <<>>
                  /\ c[2].image = loc.optimized.data
            /\ \A i \in CallsAt(loc, {"pass1retry"}) : i = 2 /\ ~c[1].ok
            /\ (loc.firstPassResult # NoResult /\ loc.pc # "pass2") =>
                  /\ Cardinality(CallsAt(loc, {"pass2"})) = 1
                  /\ \A i \in CallsAt(loc, {"pass2"}) :
                        /\ i > 1
                        /\ c[i - 1].ok
                        /\ c[i - 1].site \in {"pass1", "pass1retry"}
                        /\ loc.firstPassResult.data.origin = c[i - 1].site
                        /\ c[i].provider = "gemini"
                        /\ c[i].image = loc.firstPassResult.data
                        /\ c[i].instruction = full
            /\ (loc.firstPassResult = NoResult \/ loc.pc = "pass2") =>
                  CallsAt(loc, {"pass2"}) = {}

\* Pass 1 failed on the structural provider, was retried with an
\* instruction that carries the eye-colour guidance, and pass 2 ran.
C3_Witness ==
    \E r \in Reqs :
        /\ rq[r].pc = "done"
        /\ rq[r].mode = "double"
        /\ Len(rq[r].calls) = 3
        /\ ~rq[r].calls[1].ok
        /\ rq[r].calls[2].ok
        /\ rq[r].calls[3].site = "pass2"
        /\ rq[r].calls[3].instruction = <<"restore", "eye-guidance-blue", ".">>

Pass2FailedIn(loc) ==
    loc.mode = "double" /\ \E i \in CallsAt(loc, {"pass2"}) : ~loc.calls[i].ok

\* C4 (as claimed): when pass 2 fails after pass 1 succeeded, the request
\* succeeds (200, no error, no fallback provider call) and the returned
\* result equals pass 1's output exactly.
C4_Pass2FailureReturnsPass1 ==
    \A r \in Reqs :
        LET loc == rq[r] IN
        (Pass2FailedIn(loc) /\ loc.pc = "done") =>
            /\ loc.response.status = 200
            /\ loc.response.error = <<>>
            /\ CallsAt(loc, {"fallback"}) = {}
            /\ loc.response.data = loc.firstPassResult.data

\* C4 (amended): when pass 2 fails after pass 1 succeeded, the restoration
\* result is pass 1's output and it is what the delivery post-processing
\* is given.  When optimizeRestoredImage returns, the request succeeds (200,
\* no error, no fallback provider call) and carries optimizeRestoredImage
\* of pass 1's output, not that output itself; when it throws, the throw
\* is caught as a failure of the primary restoration.
C4_Pass2FailureDeliversPass1 ==
    \A r \in Reqs :
        LET loc == rq[r]
            delivered == optimizeRestoredImage(loc.firstPassResult.data)
        IN Pass2FailedIn(loc) =>
            /\ loc.firstPassResult # NoResult
            /\ loc.pc = "post" => loc.result = loc.firstPassResult
            /\ loc.pc # "post" =>
                  Len(loc.posts) >= 1 /\ loc.posts[1] = loc.firstPassResult.data
            /\ (loc.pc = "done" /\ delivered.ok) =>
                  /\ loc.response.status = 200
                  /\ loc.response.error = <<>>
                  /\ CallsAt(loc, {"fallback"}) = {}
                  /\ loc.response.data = delivered.base64
                  /\ loc.response.mimeType = delivered.mimeType
                  /\ loc.firstPassResult.data.kind = "image" =>
                        loc.response.data # loc.firstPassResult.data
            /\ (loc.pc # "post" /\ ~delivered.ok) =>
                  /\ loc.geminiError = delivered.error
                  /\ loc.response.status # 200 \/ CallsAt(loc, {"fallback"}) # {}

\* Pass 2 failed and the response carries the re-encoded output of pass 1.
C4_Witness ==
    \E r \in Reqs :
        /\ rq[r].pc = "done"
        /\ Pass2FailedIn(rq[r])
        /\ rq[r].response.status = 200
        /\ rq[r].response.data = [rq[r].firstPassResult.data EXCEPT !.form = "jpeg"]

\* C5: after a fallback attempt has itself failed, no further provider is
\* invoked for the request, in single-pass and in double-pass mode.
C5_OneFallbackHop ==
    \A r \in Reqs :
        LET loc == rq[r] IN
        \A i \in CallsAt(loc, {"pass1retry", "fallback"}) :
            ~loc.calls[i].ok => i = Len(loc.calls)

BothFailed(loc) ==
    loc.pc = "done" /\ loc.geminiError # NoErr /\ loc.replicateError # NoErr

C8_PollBound ==
    /\ vid.polls <= maxAttempts
    /\ vid.attempts <= maxAttempts
    /\ (vid.pc = "done" /\ vid.attempts >= maxAttempts) =>
          /\ vid.outcome = MsgTimedOut
          /\ vid.outcome \notin {MsgFailed, MsgFailedBoth}
    /\ vid.outcome = MsgTimedOut =>
          /\ vid.polls = maxAttempts
          /\ vid.status.status \notin {"failed", "canceled"}
          /\ ~(vid.status.status = "succeeded" /\ vid.status.output)

\* 120 polls of one handle, none terminal: the call timed out.
C8_Witness ==
    /\ vid.pc = "done"
    /\ vid.polls = maxAttempts
    /\ vid.outcome = MsgTimedOut

\* C9: within one generateVideo call the provider is switched at most once:
\* after the switch a poll that reports failed or canceled ends the call
\* with a failure and starts no new job.
C9_OneSwitch ==
    /\ [](Len(vid.starts) <= 2)
    /\ [][(/\ vid.pc = "poll"
           /\ vid.fallbackAttempted
           /\ vid'.polls = vid.polls + 1
           /\ vid'.status.status \in {"failed", "canceled"})
          => (/\ vid'.pc = "done"
              /\ vid'.outcome = MsgFailedBoth
              /\ vid'.starts = vid.starts)]_vars

\* The job started by the switch failed too.
C9_Witness ==
    /\ vid.pc = "done"
    /\ Len(vid.starts) = 2
    /\ vid.fallbackAttempted
    /\ vid.status.status = "failed"
    /\ vid.outcome = MsgFailedBoth

\* C10 (as claimed): whichever provider was selected initially, the first
\* failed or canceled poll makes the client start a new job with the
\* alternate provider instead of failing the request.
C10_AnyProviderFallsBack ==
    (Len(vid.starts) = 1 /\ vid.status.status \in {"failed", "canceled"}) =>
        \/ vid.pc = "restart" /\ vid.currentProvider # vid.initialProvider
        \/ vid.pc = "done" /\ vid.outcome = MsgStart

\* C10 (amended): when the initially selected provider is gemini
\* (containsChildren === false), the first failed or canceled poll makes the
\* client start a new job asking for replicate and reset the attempts
\* counter to 0; when it is replicate, the first failed or canceled poll
\* fails the request with 'Video generation failed' and starts no job.
C10_GeminiFallsBack ==
    /\ (Len(vid.starts) = 1 /\ vid.status.status \in {"failed", "canceled"}) =>
          IF vid.initialProvider = "gemini"
          THEN \/ /\ vid.pc = "restart"
                  /\ vid.fallbackAttempted
                  /\ vid.currentProvider = "replicate"
               \/ vid.pc = "done" /\ vid.outcome = MsgStart
          ELSE /\ vid.pc = "done"
               /\ vid.outcome = MsgFailed
               /\ ~vid.fallbackAttempted
    /\ Len(vid.starts) = 2 =>
          /\ vid.initialProvider = "gemini"
          /\ vid.starts[1].forceProvider = "gemini"
          /\ vid.starts[2].forceProvider = "replicate"
          /\ vid.currentProvider = "replicate"
    /\ vid.pc = "poll" => vid.attempts = vid.polls

\* The fallback job has just been started: its counter is at 0.
C10_Witness ==
    /\ vid.pc = "poll"
    /\ Len(vid.starts) = 2
    /\ vid.starts[2].forceProvider = "replicate"
    /\ vid.fallbackAttempted
    /\ vid.polls = 0
    /\ vid.attempts = 0

\* C11: every start request's job is started by the route on the provider
\* the client asked for (forceProvider, its currentProvider); the job of a
\* fallback restart runs on the alternate provider.
C11_StartedOnRequestedProvider ==
    \A i \in 1..Len(vid.starts) :
        vid.starts[i].provider = vid.starts[i].forceProvider


(***************************************************************************)
(* Properties of the rate limiter (SpecRate).                              *)
(***************************************************************************)
\* The count checkRateLimit finds for the fingerprint on the day of the
\* call: none stored, or one of an earlier day, counts as 0.
StoredCount(call) ==
    IF ~call.before.present \/ call.at > call.before.lastReset
    THEN 0
    ELSE call.before.count

\* C20: checkRateLimit returns allowed = true and remaining = limit - count
\* when the fingerprint's count of the day is below the limit of the
\* caller's country, and allowed = false when it has reached the limit.
C20_CheckDecision ==
    rl.op = "check" =>
        LET count == StoredCount(rl)
            limit == IF rl.isChile THEN ChileLimit ELSE OtherLimit
        IN IF count < limit
           THEN rl.res.allowed /\ rl.res.remaining = limit - count
           ELSE ~rl.res.allowed

\* A check made with the count at the limit is denied, and one below it
\* was allowed before.
C20_Witness ==
    /\ rl.op = "check"
    /\ rl.isChile
    /\ StoredCount(rl) = ChileLimit
    /\ ~rl.res.allowed
    /\ rl.res.remaining = 0


(***************************************************************************)
(* Properties of EyeColorCacheService (SpecCache).                         *)
(***************************************************************************)
\* What a lookup of the last setCachedImage must return at time t: the
\* image written while its age is at most MAX_CACHE_AGE, nothing after.
RoundTrip(written, got, t) ==
    IF t - written.at <= MAX_CACHE_AGE
    THEN /\ got.present
         /\ got.base64 = written.img.base64
         /\ got.mimeType = written.img.mimeType
    ELSE ~got.present

\* C17: after setCachedImage(fp, variant, img), with lookups and time but no
\* other write in between, getCachedImage(fp, variant) returns img while
\* the entry's age is within the TTL of one hour and nothing once it is
\* past it; after clearAllCache() every lookup returns nothing.
C17_RoundTrip ==
    /\ cacheOp.written.present =>
          RoundTrip(cacheOp.written,
                    getCachedImage(cache, cacheOp.written.fp,
                                   cacheOp.written.variant, nowMs).result,
                    nowMs)
    /\ cacheOp.op = "get" /\ cacheOp.ofWritten =>
          RoundTrip(cacheOp.written, cacheOp.result, nowMs)
    /\ ~cacheOp.written.present =>
          \A fp \in CachePics, variant \in EYE_COLORS :
              ~getCachedImage(cache, fp.base64, variant, nowMs).result.present

\* A lookup made exactly one hour after the write has returned the image.
C17_Witness ==
    /\ cacheOp.op = "get" /\ cacheOp.ofWritten
    /\ nowMs - cacheOp.written.at = MAX_CACHE_AGE
    /\ cacheOp.result.present
    /\ cacheOp.result.base64 = cacheOp.written.img.base64


(***************************************************************************)
(* Properties of PhotoRestoreApp's main pipeline (SpecApp).                *)
(***************************************************************************)
\* C12: after resetState while generateVideo is polling, what the polling
\* of before the reset answers later is ignored: it changes neither
\* videoUrl nor currentStep.
C12_StaleVideoIgnored ==
    [][\A s \in Slots :
          inv[s].resetAt = "video" /\ (GenVideoReturned(s) \/ GenThrows(s)) =>
              /\ app'.videoUrl = app.videoUrl
              /\ app'.currentStep = app.currentStep]_vars

C14_IdleLeftByUploadOnly ==
    [][app.currentStep = "idle" /\ app'.currentStep # "idle" =>
          /\ app'.currentStep = "analyzing"
          /\ \E s \in Slots : DropCredited(s) /\ ~inv[s].stale]_vars

\* The calls of the main pipeline: the invocations that await the answer
\* of an orchestrator call.
MainCalls ==
    {s \in Slots :
        /\ inv[s].handler \in {"drop", "gen"}
        /\ inv[s].pc \in {"analyze", "correct", "restore", "translate", "veo", "video"}}

\* C15: at most one orchestrator call of the main pipeline is in flight.
C15_OneMainCall == Cardinality(MainCalls) <= 1

\* The stage and the image of the calls of a sequence.
Starts(calls) == [i \in 1..Len(calls) |-> <<calls[i].stage, calls[i].image>>]

\* The calls an upload makes after its analysis attempts.
AfterAnalysis(loc) ==
    LET corrected == Pic("corrected", loc.base64.base64.file, TRUE, "", 1)
    IN (IF loc.analysis.needsPerspectiveCorrection
        THEN <<(<<"correction", loc.base64>>), (<<"restoration", corrected>>)>>
        ELSE <<(<<"restoration", loc.base64>>)>>)
       \o (IF app.language = "es" THEN <<(<<"translation", NoPic>>)>> ELSE <<>>)

\* The calls a video generation makes.
VideoStages(loc) ==
    (IF loc.analysis.containsChildren THEN <<>> ELSE <<(<<"veo", loc.restoredImage>>)>>)
    \o <<(<<"video", loc.restoredImage>>)>>

\* C16: the calls of one run are issued in the order analysis, correction
\* (iff needsPerspectiveCorrection), restoration, translation (iff the
\* language is Spanish), each after the result of the one before, the
\* restoration on the corrected image when the correction ran; the video
\* generation is issued on a restored image, from readyForVideo on.
C16_StageOrder ==
    \A s \in Slots :
        LET loc == inv[s]
            starts == Starts(loc.calls)
            n == Cardinality({i \in 1..Len(starts) : starts[i][1] = "analysis"})
            rest == SubSeq(starts, n + 1, Len(starts))
        IN /\ loc.handler = "drop" =>
                /\ n <= maxRetries
                /\ \A i \in 1..n : starts[i] = <<"analysis", loc.base64>>
                /\ loc.pc \in {"analyze", "backoff"} => rest = <<>>
                /\ rest # <<>> =>
                      /\ loc.analysis.present
                      /\ Len(rest) <= Len(AfterAnalysis(loc))
                      /\ rest = SubSeq(AfterAnalysis(loc), 1, Len(rest))
                      /\ loc.pc = rest[Len(rest)][1]
                            \/ <<loc.pc, rest[Len(rest)][1]>> \in
                                   {<<"correct", "correction">>,
                                    <<"restore", "restoration">>,
                                    <<"translate", "translation">>}
           /\ loc.handler = "gen" =>
                /\ loc.restoredImage # NoPic
                /\ loc.restoredImage.base64.kind \in {"restored", "eye"}
                /\ loc.analysis.present
                /\ Len(starts) <= Len(VideoStages(loc))
                /\ starts = SubSeq(VideoStages(loc), 1, Len(starts))

\* The translation call of a run that corrected the perspective is in
\* flight, after a second analysis attempt.
C16_Witness ==
    \E s \in Slots :
        /\ inv[s].handler = "drop" /\ inv[s].pc = "translate"
        /\ Len(inv[s].calls) = 5
        /\ inv[s].calls[3].stage = "correction"
        /\ inv[s].calls[4].image.base64.kind = "corrected"


(***************************************************************************)
(* Properties of PhotoRestoreApp's eye-colour flow (SpecEye).              *)
(***************************************************************************)
\* The eye-colour requests of the session that await editImage.
EyeCalls ==
    {s \in Slots : inv[s].handler = "eye" /\ inv[s].pc = "edit" /\ ~inv[s].stale}

\* C18: after blue and then green were selected and delivered for a
\* restored image, selecting blue again is served from the cache: no
\* editImage call is made for it.
C18_ReselectServedFromCache ==
    app.made = <<"blue", "green">> /\ app.picks = 3 =>
        \A s \in EyeCalls : inv[s].eyeColor # "blue"

\* C19: an eye-colour request that arrives while another one of the session
\* is in flight is rejected: two are never in flight together.
C19_OneEyeRequest == Cardinality(EyeCalls) <= 1


(***************************************************************************)
(* Properties of the rate limiting of POST /api/edit-image (SpecEdit).     *)
(***************************************************************************)
\* C21: a request the rate limiter denies is answered 429 with limit,
\* remaining, resetTime and country of the caller's quota, has invoked no
\* edit provider and leaves the usage count as it was; the rate limiter is
\* consulted before any provider call of a request.
C21_DeniedRequest ==
    /\ [](\A r \in Reqs :
            /\ rq[r].response.status = 429 =>
                  /\ rq[r].response.rateLimitInfo.limit \in {ChileLimit, OtherLimit}
                  /\ rq[r].response.rateLimitInfo.country \in {"Chile", "Unknown"}
                  /\ rq[r].response.rateLimitInfo.remaining = 0
                  /\ rq[r].response.rateLimitInfo.resetTime > today
                  /\ rateLimitStore.count >= rq[r].response.rateLimitInfo.limit
                  /\ rq[r].calls = <<>>
                  /\ rq[r].counted = 0
            /\ rq[r].pc \in {"idle", "ratelimit"} => rq[r].calls = <<>>)
    /\ [][\A r \in Reqs :
             RateLimit(r) /\ rq'[r].response.status = 429 =>
                 rateLimitStore'.count = rateLimitStore.count]_vars

\* A request with a fingerprint has been denied.
C21_Witness ==
    \E r \in Reqs :
        /\ rq[r].pc = "done"
        /\ rq[r].body.browserFingerprint
        /\ rq[r].response.status = 429
        /\ rq[r].response.rateLimitInfo.limit = OtherLimit


(***************************************************************************)
(* Properties of the PhotoRestoreApp that sends its fingerprint            *)
(* (SpecQuota).                                                            *)
(***************************************************************************)
\* C22: a rate-limit rejection of an edit call, in the upload and in the
\* eye-colour flow alike, sets rateLimitInfo and is never shown as the
\* free-text error.
C22_DenialStructured == app.error # MsgRateLimit


(***************************************************************************)
(* Properties of the analysis attempts of an upload (SpecApp).             *)
(***************************************************************************)
\* The number of analyzeImage calls of an invocation.
AnalysisCalls(loc) ==
    Cardinality({i \in 1..Len(loc.calls) : loc.calls[i].stage = "analysis"})

\* C23: an upload calls the analysis at most 3 times; after its k-th
\* failed attempt, k < 3, it waits 1000 * k ms before the next one; after
\* the third failed attempt it makes no further call and fails back to
\* idle with an error.
C23_AnalysisAttempts ==
    /\ [](\A s \in Slots :
            inv[s].handler = "drop" =>
                /\ AnalysisCalls(inv[s]) <= 3
                /\ Len(inv[s].waits) < 3
                /\ \A k \in 1..Len(inv[s].waits) : inv[s].waits[k] = 1000 * k
                /\ inv[s].pc = "backoff" => AnalysisCalls(inv[s]) = Len(inv[s].waits)
                /\ inv[s].pc = "analyze" => AnalysisCalls(inv[s]) = Len(inv[s].waits) + 1)
    /\ [][\A s \in Slots :
             /\ DropAnalysisRetry(s) \/ DropBackoffDone(s) => AnalysisCalls(inv[s]) < 3
             /\ DropThrows(s) /\ inv[s].pc = "analyze" =>
                    /\ AnalysisCalls(inv[s]) = 3
                    /\ inv'[s].pc = "free"
                    /\ app'.currentStep = "idle" /\ app'.error # ""]_vars

\* The third attempt of an upload is awaited, after waits of 1000 and 2000 ms.
C23_Witness ==
    \E s \in Slots :
        /\ inv[s].handler = "drop" /\ inv[s].pc = "analyze"
        /\ inv[s].waits = <<1000, 2000>>
        /\ AnalysisCalls(inv[s]) = 3
        /\ ENABLED DropThrows(s)

\* C24: the analysis is retried only after an analysis that lacks required
\* fields; after an error answer of /api/analyze-image the upload makes no
\* further attempt.
C24_ProviderErrorNotRetried ==
    \A s \in Slots :
        inv[s].handler = "drop" /\ inv[s].pc = "backoff" => inv[s].lastFailure # "error"

\* C25: an analysis that lacks a required field is a failed analysis: an
\* upload never awaits a correction or a restoration with an analysis
\* without its restorationPrompt.
C25_AnalysisComplete ==
    \A s \in Slots :
        inv[s].handler = "drop" /\ inv[s].pc \in {"correct", "restore"} =>
            inv[s].analysis.restorationPrompt


(***************************************************************************)
(* Properties of the video jobs of generateVideo (SpecVideo).              *)
(***************************************************************************)
\* C26: under every configuration of the route a start request is answered
\* with a job handle, a predictionId or an operationName, and never with
\* the finished video.
C26_StartReturnsHandle ==
    vid.startResult.kind \in {"none", "predictionId", "operationName"}

\* C27: a poll that reports processing is followed by more polling of the
\* same handle; one that reports succeeded ends the polling with the
\* download of the output; one that reports failed or canceled ends the
\* polling of the current job; and after a poll that reported succeeded no
\* other poll of the same handle is made.
C27_PollEffects ==
    /\ [][vid.pc = "poll" /\ vid'.polls = vid.polls + 1 =>
             CASE vid'.status.status = "processing" ->
                      vid'.pc = "poll" /\ vid'.startResult = vid.startResult
               [] vid'.status.status = "succeeded" -> vid'.pc = "download"
               [] vid'.status.status \in {"failed", "canceled"} ->
                      vid'.pc \in {"restart", "done"}
               [] OTHER -> TRUE]_vars
    /\ [][vid.status.status = "succeeded" => vid'.polls <= vid.polls]_vars

\* C28: no status poll is made while the start request of the fallback is
\* in flight, and each poll after it carries the handle of the new job
\* only.
C28_RestartSupersedes ==
    /\ [](vid.polls > 0 =>
            {vid.polled.predictionId, vid.polled.operationName}
                = {0, vid.starts[Len(vid.starts)].job})
    /\ [][vid.pc = "restart" => vid'.waited = vid.waited]_vars

\* The job of the fallback has been polled.
C28_Witness ==
    /\ Len(vid.starts) = 2
    /\ vid.polls > 0
    /\ vid.polled.operationName = 2
    /\ vid.waited > vid.polls

\* C29: one generateVideo call, the fallback included, makes at most 120
\* waits of 5 s, and once it has made them it ends timed out.
C29_TotalWaitBound ==
    /\ vid.waited <= 120
    /\ vid.pc = "done" /\ vid.waited >= 120 => vid.outcome = MsgTimedOut


(***************************************************************************)
(* Properties of the cache service as pictures arrive (SpecFill).          *)
(***************************************************************************)
\* The timestamps of the entries of a group that are at most an hour old.
LiveStamps(group, t) ==
    {group.entries[e].timestamp :
        e \in {x \in EYE_COLORS : group.entries[x].present
                                    /\ t - group.entries[x].timestamp <= 3600000}}

\* The keys of the groups of a cache.
KeysOf(c) == {c[i].key : i \in 1..Len(c)}

\* C30: after every operation the cache holds one group per image key (and
\* in it one entry per eye colour) and at most 10 groups; getCachedImage,
\* isCached and getCachedEyeColors never give an entry older than one hour;
\* and the groups a write removes for want of room are older than the ones
\* it keeps: no timestamp of a kept group is below the oldest live one of a
\* removed group.
C30_CacheBounded ==
    /\ [](/\ Len(cache) <= 10
          /\ \A i, j \in 1..Len(cache) : cache[i].key = cache[j].key => i = j
          /\ \A head \in 1..MaxPictures, variant \in EYE_COLORS :
                LET got == getCachedImage(cache, FillPic(head).base64, variant, nowMs)
                    is == isCached(cache, FillPic(head).base64, variant, nowMs)
                    colors == getCachedEyeColors(cache, FillPic(head).base64, nowMs)
                    g == GroupOf(cache, head)
                IN /\ got.result.present => nowMs - got.result.timestamp <= 3600000
                   /\ is.result =>
                          /\ g # 0 /\ cache[g].entries[variant].present
                          /\ nowMs - cache[g].entries[variant].timestamp <= 3600000
                   /\ variant \in colors.result =>
                          /\ g # 0 /\ cache[g].entries[variant].present
                          /\ nowMs - cache[g].entries[variant].timestamp <= 3600000)
    /\ [][cacheOp'.op = "set" =>
             \A i \in 1..Len(cache), j \in 1..Len(cache') :
                 (cache[i].key \notin KeysOf(cache') /\ LiveStamps(cache[i], nowMs) # {}) =>
                     /\ Len(cache') = 10
                     /\ \E old \in LiveStamps(cache[i], nowMs) :
                            \A t \in LiveStamps(cache'[j], nowMs) : old <= t]_vars

\* The eleventh picture has been written at 1 ms and nothing has expired:
\* the group of the first picture is gone, the ten others are kept.
C30_Witness ==
    /\ cacheOp.op = "set"
    /\ nowMs = 1
    /\ KeysOf(cache) = 2..11
    /\ cache[1].entries["blue"].timestamp = 0
    /\ cache[10].entries["blue"].timestamp = 1


(***************************************************************************)
(* Properties of the delivery and the count of POST /api/edit-image        *)
(* (SpecEdit).                                                             *)
(***************************************************************************)
\* The sites of the provider calls of a request, in order.
Sites(loc) == [i \in 1..Len(loc.calls) |-> loc.calls[i].site]

\* C31: a 200 response carries what optimizeRestoredImage gave for the
\* final result of the request, which was handed to it exactly once: after
\* the single pass, after pass 2, after a failed pass 2 (pass 1's output)
\* and after the fallback.
C31_PostProcessedOnce ==
    \A r \in Reqs :
        rq[r].response.status = 200 =>
            LET loc == rq[r]
                last == loc.calls[Len(loc.calls)]
                final == IF last.site = "pass2" /\ ~last.ok
                         THEN loc.firstPassResult.data ELSE Img(last.site, loc.result.data.kind)
            IN /\ loc.calls # <<>>
               /\ last.site \in {"single", "pass2", "fallback"}
               /\ loc.result.data = final
               /\ loc.posts # <<>> /\ loc.posts[Len(loc.posts)] = final
               /\ Cardinality({i \in 1..Len(loc.posts) : loc.posts[i] = final}) = 1
               /\ final.kind # "notimage"
               /\ loc.response.data.origin = final.origin
               /\ final.kind = "image" =>
                      /\ loc.response.data.form = "jpeg"
                      /\ loc.response.mimeType = "image/jpeg"
               /\ final.kind = "badbody" =>
                      /\ loc.response.data = final
                      /\ loc.response.mimeType = "image/png"

\* A double pass whose pass 2 failed has answered 200 with pass 1's output
\* as JPEG.
C31_Witness ==
    \E r \in Reqs :
        /\ rq[r].response.status = 200
        /\ Sites(rq[r]) = <<"pass1", "pass2">>
        /\ ~rq[r].calls[2].ok
        /\ rq[r].response.data = [Img("pass1", "image") EXCEPT !.form = "jpeg"]

\* C32: the fallback call is given the instruction the primary provider
\* was given in the same request, eye-colour guidance included, and the
\* same input image.
C32_FallbackSameInstruction ==
    \A r \in Reqs :
        \A i \in 1..Len(rq[r].calls) :
            rq[r].calls[i].site = "fallback" =>
                /\ rq[r].calls[i].image = rq[r].optimized.data
                /\ \A j \in 1..(i - 1) :
                       rq[r].calls[j].provider = "gemini" =>
                           rq[r].calls[i].instruction = rq[r].calls[j].instruction


(***************************************************************************)
(* Properties of the edit requests of an upload (SpecUpload).              *)
(***************************************************************************)
\* What the analysis of an invocation says of the three conditions.
Demanding(analysis) ==
    analysis.hasManyPeople \/ analysis.isBlackAndWhite \/ analysis.isVeryOld

\* The perspective-correction and eye-colour edits ask for and get a
\* single pass, and a restoration that returns ends in readyForVideo,
\* after the translation when the language is Spanish.
OtherEditsSinglePass ==
    /\ [](\A s \in Slots : \A i \in 1..Len(inv[s].calls) :
            inv[s].calls[i].stage \in {"correction", "eyecolor"} =>
                ~inv[s].calls[i].useDoublePass /\ ~DoublePass(inv[s].calls[i].useDoublePass))
    /\ [][\A s \in Slots :
             /\ DropRestored(s) =>
                    app'.currentStep = IF app.language = "es" THEN "translating"
                                                             ELSE "readyForVideo"
             /\ DropTranslated(s) => app'.currentStep = "readyForVideo"]_vars

C34_CountWithinLimit == rateLimitStore.count <= 10


Stored(img, t) ==
    [present |-> TRUE, base64 |-> img.base64, mimeType |-> img.mimeType, timestamp |-> t]

\* C36: right after setCachedImage(fp, variant, img), getCachedImage(fp,
\* variant) gives img, for the picture that makes an eleventh group and
\* for a second eye colour of a picture whose first one is old.
C36_WrittenIsKept ==
    [][/\ FillNext =>
             LET fp == FillPic(NextHead(cache))
             IN getCachedImage(cache', fp.base64, "blue", nowMs').result
                    = Stored(CacheResult(fp, "blue", 1), nowMs)
       /\ FillAgain =>
             \A fp \in FirstPics(cache) :
                 getCachedImage(cache', fp.base64, "green", nowMs').result
                     = Stored(CacheResult(fp, "green", 1), nowMs)]_vars

\* Eleven pictures have been written in the same millisecond: the first is
\* gone, the eleventh is kept.
C36_Witness ==
    /\ cacheOp.op = "set"
    /\ nowMs = 0
    /\ KeysOf(cache) = 2..11
    /\ cache[10].key = 11

\* C37: a lookup for a picture never gives an image stored for another
\* picture: whatever picture and eye colour is looked up, what
\* getCachedImage gives was made from that picture.
C37_LookupGivesOwnImage ==
    \A fp \in AlikePics, variant \in PickedColors :
        LET got == getCachedImage(cache, fp.base64, variant, nowMs).result
        IN got.present => got.base64.file = fp.base64.file

\* C38: no step of handleEyeColorSelect changes currentStep, and the step
\* taken when editImage has thrown leaves restoredImage, selectedEyeColor
\* and the cache as they are, sets the error and clears isEyeColorLoading.
C38_EyeFailureLeavesState ==
    [][/\ (HandleEyeColorSelect \/ \E s \in Slots : EyeEdited(s) \/ EyeThrows(s))
           => app'.currentStep = app.currentStep
       /\ (\E s \in Slots : EyeThrows(s))
           => /\ app'.restoredImage = app.restoredImage
              /\ app'.selectedEyeColor = app.selectedEyeColor
              /\ cache' = cache
              /\ app'.error # ""
              /\ ~app'.isEyeColorLoading]_vars

\* One eye colour has been made and cached, and the request for another
\* has failed.
C38_Witness ==
    /\ app.picks = 2
    /\ app.made = <<"blue">>
    /\ app.selectedEyeColor = "blue"
    /\ app.error = MsgThrown
    /\ ~app.isEyeColorLoading
    /\ app.currentStep = "readyForVideo"
    /\ cache # <<>>
    /\ \A s \in Slots : inv[s] = FreeInv

\* A start request of the call is answered by a response that is not OK.
StartNotOk == (StartVideo \/ RestartVideo) /\ vid'.starts = vid.starts

\* A status poll of the call is answered by a response that is not OK.
PollNotOk == Poll /\ vid'.status = NoAnswer

\* C39: a response that is not OK to a start request or to a status poll
\* ends generateVideo at once: the call has thrown, the progress timer is
\* cleared, no fallback has been started or marked as attempted, and the
\* call that has thrown makes no other request.
C39_NotOkAborts ==
    [][/\ (StartNotOk \/ PollNotOk)
           => /\ vid'.pc = "done"
              /\ vid'.outcome \in {MsgStart, MsgStatus}
              /\ ~vid'.interval
              /\ vid'.starts = vid.starts
              /\ vid'.fallbackAttempted = vid.fallbackAttempted
              /\ vid'.currentProvider = vid.currentProvider
       /\ vid.pc = "done" => vid' = IdleVid]_vars

\* The first status poll of a job started on Gemini got a response that is
\* not OK: the call has thrown without the switch to Replicate.
C39_Witness ==
    /\ vid.pc = "done"
    /\ vid.outcome = MsgStatus
    /\ vid.status = NoAnswer
    /\ vid.currentProvider = "gemini"
    /\ ~vid.fallbackAttempted
    /\ Len(vid.starts) = 1
    /\ ~vid.interval

InFlightSteps == {"analyzing", "correcting", "restoring", "translating", "generatingVideo"}
RestingSteps == {"idle", "readyForVideo", "done"}

\* C40: when every awaited call returns or throws in the end, a pipeline
\* that is analyzing, correcting, restoring, translating or generating the
\* video gets to idle, readyForVideo or done, whatever the status polls
\* answer.
C40_ReachesRest ==
    (app.currentStep \in InFlightSteps) ~> (app.currentStep \in RestingSteps)

\* The first job of the video has failed, the second one has been polled
\* until the call timed out, and the pipeline has come to rest.
C40_Witness ==
    /\ vid.pc = "done"
    /\ vid.outcome = MsgTimedOut
    /\ vid.fallbackAttempted
    /\ vid.attempts = maxAttempts
    /\ app.currentStep = "readyForVideo"
    /\ app.error = MsgThrown
    /\ \A s \in Slots : inv[s] = FreeInv

====
